---- MODULE Spec2Model ----
(***************************************************************************)
(* Model of the Local proxy channel driver (channels/chan_local.c): one    *)
(* pair of back-to-back endpoints A (p->owner) and B (p->chan) sharing one *)
(* private record (struct local_pvt), the registry of pairs (locals), the  *)
(* frame forwarder local_queue_frame with its back-off, the optimize-away  *)
(* check (check_bridge), hangup, call, request, devicestate and the        *)
(* LocalOptimizeAway manager action.                                       *)
(*                                                                         *)
(* Strings are sequences of one-character strings.                         *)
(***************************************************************************)
EXTENDS Integers, Sequences, FiniteSets, TLC

(***************************************************************************)
(* Bounds of the model.                                                    *)
(***************************************************************************)
\* longest destination string enumerated for the parsers
MaxLen == 5
\* size of the exten[] buffer of struct local_pvt, scaled down so that
\* ast_copy_string's truncation happens on the strings enumerated
AST_MAX_EXTENSION == 12
\* size of the context[] buffer, scaled down likewise (the two sizes are equal)
AST_MAX_CONTEXT == 12

\* characters of destination strings: a plain character, the two separators
\* and the four option letters
Chars == {"e", "@", "/", "n", "j", "b", "m"}

Strings == UNION {[1..n -> Chars] : n \in 0..MaxLen}

\* n times the plain character
Plain(n) == [i \in 1..n |-> "e"]

\* destinations that do not fit the exten[] buffer
LongStrings ==
  { Plain(AST_MAX_EXTENSION + 1),
    Plain(AST_MAX_EXTENSION - 3) \o <<"/", "n", "b">>,
    Plain(AST_MAX_EXTENSION - 4) \o <<"@", "e", "/", "n">>,
    Plain(AST_MAX_EXTENSION - 2) \o <<"@", "e">>,
    Plain(AST_MAX_EXTENSION - 3) \o <<"/", "j", "n">> }

Null == "null"

(***************************************************************************)
(* C string helpers.                                                       *)
(***************************************************************************)
Min(a, b) == IF a < b THEN a ELSE b

\* strchr(s, c): index of the first c in s, 0 when there is none
StrChr(s, c) ==
  IF \E i \in 1..Len(s) : s[i] = c
  THEN CHOOSE i \in 1..Len(s) : s[i] = c /\ \A j \in 1..(i-1) : s[j] # c
  ELSE 0

\* a copy that keeps one character less
CopyShort(src, size) == SubSeq(src, 1, Min(Len(src), size - 2))

\* ast_copy_string(dst, src, size): at most size-1 characters are kept
ast_copy_string(src, size) == SubSeq(src, 1, Min(Len(src), size - 1))

Tail0(s, i) == SubSeq(s, i + 1, Len(s))
Head0(s, i) == SubSeq(s, 1, i - 1)

DefaultContext == <<"d", "e", "f", "a", "u", "l", "t">>

(***************************************************************************)
(* Flags of struct local_pvt.                                              *)
(***************************************************************************)
LOCAL_GLARE_DETECT    == "GLARE_DETECT"
LOCAL_CANCEL_QUEUE    == "CANCEL_QUEUE"
LOCAL_ALREADY_MASQED  == "ALREADY_MASQED"
LOCAL_LAUNCHED_PBX    == "LAUNCHED_PBX"
LOCAL_NO_OPTIMIZATION == "NO_OPTIMIZATION"
LOCAL_BRIDGE          == "BRIDGE"
LOCAL_MOH_PASSTHRU    == "MOH_PASSTHRU"

(***************************************************************************)
(* local_alloc: the parse of the destination string.  The options are      *)
(* sought after the first '/' of the (truncated) copy, the context after   *)
(* the first '@' of what precedes that '/'.                                *)
(***************************************************************************)
AllocOptFlags(opts) ==
  (IF StrChr(opts, "n") # 0 THEN {LOCAL_NO_OPTIMIZATION} ELSE {})
  \cup (IF StrChr(opts, "b") # 0 THEN {LOCAL_BRIDGE} ELSE {})
  \cup (IF StrChr(opts, "m") # 0 THEN {LOCAL_MOH_PASSTHRU} ELSE {})

\* 'j' alone enables the jitter buffer
AllocJbAny(opts) == StrChr(opts, "j") # 0

\* AST_JB_ENABLED is set only when 'j' comes with 'n'
AllocJb(opts) == StrChr(opts, "j") # 0 /\ StrChr(opts, "n") # 0

\* the LOG_ERROR of the 'j' without 'n' case
AllocJbError(opts) == StrChr(opts, "j") # 0 /\ StrChr(opts, "n") = 0

local_alloc_parse(data) ==
  LET buf  == ast_copy_string(data, AST_MAX_EXTENSION)
      o    == StrChr(buf, "/")
      opts == IF o # 0 THEN Tail0(buf, o) ELSE <<>>
      ext1 == IF o # 0 THEN Head0(buf, o) ELSE buf
      c    == StrChr(ext1, "@")
  IN [ exten   |-> IF c # 0 THEN Head0(ext1, c) ELSE ext1,
       context |-> ast_copy_string(IF c # 0 THEN Tail0(ext1, c) ELSE DefaultContext,
                                   AST_MAX_CONTEXT),
       flags   |-> IF o # 0 THEN AllocOptFlags(opts) ELSE {},
       jb      |-> o # 0 /\ AllocJb(opts),
       jberr   |-> o # 0 /\ AllocJbError(opts) ]

(***************************************************************************)
(* local_devicestate: its own parse of the destination (the '@' first,     *)
(* then the options stripped from the context).                            *)
(***************************************************************************)
devicestate_parse(data) ==
  LET c   == StrChr(data, "@")
      ctx == Tail0(data, c)
      o   == StrChr(ctx, "/")
  IN [ ok      |-> c # 0,
       exten   |-> IF c # 0 THEN Head0(data, c) ELSE data,
       context |-> IF c = 0 THEN <<>> ELSE IF o # 0 THEN Head0(ctx, o) ELSE ctx ]

(***************************************************************************)
(* State.                                                                  *)
(***************************************************************************)
Threads == {"t1", "t2"}
None == "none"

\* the two endpoints of the pair, A's outside peer X and B's bridge peer Y
Locals == {"A", "B"}
Chans  == {"A", "B", "X", "Y"}

VARIABLES
  dest,       \* the data argument of local_request
  alloc,      \* the pair was allocated by local_alloc
  owner,      \* p->owner (A) or Null
  chan,       \* p->chan (B) or Null
  flags,      \* p->flags
  exten,      \* p->exten
  context,    \* p->context
  jb,         \* AST_JB_ENABLED of p->jb_conf
  jberr,      \* local_alloc logged the 'j' without 'n' error
  plock,      \* holder of p->lock, or None
  umod,       \* p->u_owner / p->u_chan: module references held
  destroyed,  \* number of local_pvt_destroy calls on the pair
  uaf,        \* the freed pair was accessed again
  inList,     \* the pair is in the list locals
  others,     \* the other pairs of the list locals
  llock,      \* holder of the lock of the list locals, or None
  exists,     \* the channel structures ast_channel_alloc made
  tech_pvt,   \* ast->tech_pvt points to the pair
  clock,      \* holder of each channel's lock, or None
  readq,      \* each endpoint's read queue
  enqlog,     \* every frame ever queued on each endpoint, in order
  generator,  \* the endpoint has a generator
  bridge,     \* p->chan->_bridge
  bridged,    \* ast_bridged_channel(p->chan)
  obridge,    \* p->owner->_bridge
  hungup,     \* ast_check_hangup of a channel
  moh,        \* music on hold is playing on the endpoint
  ringing,    \* the endpoint's state was set to AST_STATE_RINGING
  masq,       \* number of ast_channel_masquerade calls
  dialplan,   \* the (context, extension) pairs of the dialplan
  pbx,        \* ast_pbx_start was called on B
  obs,        \* what the last control-surface call returned
  thr,        \* each thread's position and locals
  seqno,      \* frames submitted so far by each thread
  nops        \* operations begun so far

pairVars == <<alloc, owner, chan, flags, exten, context, jb, jberr, umod>>
regVars  == <<inList, others, llock>>
chanVars == <<exists, tech_pvt, clock, readq, enqlog, generator, bridge, bridged, obridge,
              hungup, moh, ringing, masq>>
envVars  == <<dest, dialplan>>
vars == <<dest, alloc, owner, chan, flags, exten, context, jb, jberr, plock, umod,
          destroyed, uaf, inList, others, llock, exists, tech_pvt, clock, readq,
          enqlog, generator, bridge, bridged, obridge, hungup, moh, ringing, masq, dialplan,
          pbx, obs, thr, seqno, nops>>

\* operations the threads may begin in one run
MaxOps == 3

NoFrame == [type |-> None, sub |-> None, by |-> None, n |-> 0]

Idle == [pc |-> "idle", kind |-> None, ast |-> Null, f |-> NoFrame,
         isout |-> FALSE, other |-> Null, us |-> Null, uslk |-> FALSE,
         res |-> 0, pre |-> FALSE, fwd |-> FALSE, arg |-> None,
         status |-> FALSE, glare |-> FALSE, outer |-> Null]

NoObs == [op |-> None, data |-> <<>>, res |-> None]

\* IS_OUTBOUND(a, b): a == b->chan
IS_OUTBOUND(a) == a = chan

\* the endpoints taken the other way round
OtherSwapped(isoutbound) == IF isoutbound THEN chan ELSE owner

\* other = isoutbound ? p->owner : p->chan
Other(isoutbound) == IF isoutbound THEN owner ELSE chan

Set(t, r) == thr' = [thr EXCEPT ![t] = r]

\* a trylock that never succeeds
NeverFree(c) == FALSE

\* a trylock of channel c would succeed (there is nothing to lock when c is null)
Free(c) == IF c = Null THEN TRUE ELSE clock[c] = None
Busy(c) == ~Free(c)

Freed == destroyed > 0

\* the frame is put at the head of the queue
QueueHead(q, f) == <<f>> \o q

\* ast_queue_frame: the frame goes to the tail of the read queue
QueueTail(q, f) == Append(q, f)

ast_queue_frame(c, f) ==
  /\ readq'  = [readq  EXCEPT ![c] = QueueTail(@, f)]
  /\ enqlog' = [enqlog EXCEPT ![c] = Append(@, f)]


(***************************************************************************)
(* check_bridge: the optimize-away attempt of a voice/video write on B.    *)
(***************************************************************************)
\* the gate without the test of A's read queue
CheckBridgeAnyQueue ==
  /\ LOCAL_ALREADY_MASQED \notin flags
  /\ LOCAL_NO_OPTIMIZATION \notin flags
  /\ chan # Null
  /\ owner # Null
  /\ bridge = bridged
  /\ bridge # Null

\* a write that never finds the flag set
NeverMasqed(fl) == FALSE

\* ast_test_flag(p, LOCAL_ALREADY_MASQED) in local_write, after check_bridge
WriteFindsMasqed(fl) == LOCAL_ALREADY_MASQED \in fl

\* every forwarding operation tests the flag
TestsMasqedAlways(kind) == TRUE

\* the operations that test LOCAL_ALREADY_MASQED before local_queue_frame:
\* local_write alone
TestsMasqed(kind) == kind = "write"

\* the conditions tested before any lock is tried
CheckBridgeEligible ==
  /\ LOCAL_ALREADY_MASQED \notin flags
  /\ LOCAL_NO_OPTIMIZATION \notin flags
  /\ chan # Null
  /\ owner # Null
  /\ bridge = bridged
  /\ bridge # Null
  /\ readq[owner] = <<>>

\* the bridge peer's trylock succeeds and the peer is hung up: check_bridge
\* returns without unlocking it
CheckBridgeKeepsLock ==
  /\ CheckBridgeEligible
  /\ clock[bridge] = None
  /\ hungup[bridge]

\* both trylocks succeed and neither channel is hung up: the splice is made
CheckBridgeSplices ==
  /\ CheckBridgeEligible
  /\ clock[bridge] = None
  /\ ~hungup[bridge]
  /\ clock[owner] = None
  /\ ~hungup[owner]

(***************************************************************************)
(* The operations that forward one frame: local_write, local_indicate,     *)
(* local_digit_begin, local_digit_end, local_sendtext, local_sendhtml.     *)
(***************************************************************************)
FwdKinds == {"write", "indicate", "digit_begin", "digit_end", "sendtext", "sendhtml"}

\* the us_locked argument each of them gives local_queue_frame
UsLocked(kind) == kind \in {"write", "indicate"}

FrameType(kind, arg) ==
  CASE kind = "write"       -> arg
    [] kind = "indicate"    -> "CONTROL"
    [] kind = "digit_begin" -> "DTMF_BEGIN"
    [] kind = "digit_end"   -> "DTMF_END"
    [] kind = "sendtext"    -> "TEXT"
    [] kind = "sendhtml"    -> "HTML"

WriteTypes == {"VOICE", "VIDEO", "TEXT"}
Conditions == {"HOLD", "UNHOLD", "RINGING", "CONNECTED_LINE"}

Args(kind) ==
  CASE kind = "write"    -> WriteTypes
    [] kind = "indicate" -> Conditions
    [] OTHER             -> {None}

\* hold and unhold are always done on the endpoint itself
MohLocalAlways(kind, arg) ==
  kind = "indicate" /\ arg \in {"HOLD", "UNHOLD"}

\* local_indicate starts or stops music on hold itself, taking no lock
MohLocal(kind, arg) ==
  kind = "indicate" /\ arg \in {"HOLD", "UNHOLD"} /\ LOCAL_MOH_PASSTHRU \notin flags

\* the switch calls the operation on endpoint c; write and indicate are called
\* with c's lock held.  The operation first reads ast->tech_pvt.
BeginFwd(t, c, kind, arg) ==
  /\ thr[t].pc = "idle"
  /\ nops < MaxOps
  /\ exists[c]
  /\ UsLocked(kind) => clock[c] = None
  /\ clock' = IF UsLocked(kind) THEN [clock EXCEPT ![c] = t] ELSE clock
  /\ nops' = nops + 1
  /\ seqno' = [seqno EXCEPT ![t] = @ + 1]
  /\ LET r == [Idle EXCEPT !.kind = kind, !.ast = c, !.arg = arg, !.us = c,
                           !.uslk = UsLocked(kind),
                           !.f = [type |-> FrameType(kind, arg),
                                  sub  |-> IF kind = "indicate" THEN arg ELSE None,
                                  by   |-> t,
                                  n    |-> seqno[t] + 1]]
     IN  IF ~tech_pvt[c]
         THEN Set(t, [r EXCEPT !.pc = "ret", !.res = -1]) /\ UNCHANGED moh
         ELSE IF MohLocal(kind, arg)
         THEN /\ Set(t, [r EXCEPT !.pc = "ret", !.res = 0])
              /\ moh' = [moh EXCEPT ![c] = (arg = "HOLD")]
         ELSE Set(t, [r EXCEPT !.pc = "lockp"]) /\ UNCHANGED moh
  /\ UNCHANGED <<pairVars, regVars, envVars, plock, destroyed, uaf, exists, tech_pvt,
                 readq, enqlog, generator, bridge, bridged, obridge, hungup, ringing, masq,
                 pbx, obs>>

\* ast_mutex_lock(&p->lock), then the operation up to the first trylock of
\* local_queue_frame
LockFwd(t) ==
  LET r      == thr[t]
      io     == IS_OUTBOUND(r.ast)
      media  == r.kind = "write" /\ io /\ r.f.type \in {"VOICE", "VIDEO"}
      splice == media /\ CheckBridgeSplices
      keeps  == media /\ CheckBridgeKeepsLock
      fl1    == IF splice THEN flags \cup {LOCAL_ALREADY_MASQED} ELSE flags
      other  == Other(io)
      pre    == owner # Null /\ chan # Null /\ LOCAL_ALREADY_MASQED \notin flags
      r1     == [r EXCEPT !.isout = io, !.pre = pre, !.other = other]
  IN
  /\ r.pc = "lockp"
  /\ r.kind \in FwdKinds
  /\ plock = None
  /\ uaf' = (uaf \/ Freed)
  /\ masq' = IF splice THEN masq + 1 ELSE masq
  /\ clock' = IF keeps THEN [clock EXCEPT ![bridge] = t] ELSE clock
  /\ IF TestsMasqed(r.kind) /\ WriteFindsMasqed(fl1)
     THEN \* not posted: already masqueraded
          /\ flags' = fl1
          /\ Set(t, [r1 EXCEPT !.pc = "ret", !.res = 0])
          /\ UNCHANGED plock
     ELSE IF r.kind = "indicate" /\ r.arg = "CONNECTED_LINE" /\ other = Null
     THEN /\ flags' = fl1
          /\ Set(t, [r1 EXCEPT !.pc = "ret", !.res = 0])
          /\ UNCHANGED plock
     ELSE IF other = Null \/ (generator[r.ast] /\ generator[other])
     THEN \* local_queue_frame returns 0 at once and the caller unlocks
          /\ flags' = fl1
          /\ Set(t, [r1 EXCEPT !.pc = "ret", !.res = 0, !.fwd = TRUE])
          /\ UNCHANGED plock
     ELSE /\ flags' = fl1 \cup {LOCAL_GLARE_DETECT}
          /\ Set(t, [r1 EXCEPT !.pc = "try", !.fwd = TRUE])
          /\ plock' = t
  /\ UNCHANGED <<alloc, owner, chan, exten, context, jb, jberr, umod, regVars,
                 envVars, destroyed, exists, tech_pvt, readq, enqlog,
                 generator, bridge, bridged, obridge, hungup, moh, ringing, pbx, obs,
                 seqno, nops>>

(***************************************************************************)
(* local_queue_frame from its trylock loop on.                             *)
(***************************************************************************)
\* ast_channel_trylock(other) fails: the pair is unlocked and the thread
\* backs off, with CHANNEL_DEADLOCK_AVOIDANCE(us) when us is locked
QueueBackoff(t) ==
  LET r == thr[t] IN
  /\ r.pc = "try"
  /\ Busy(r.other)
  /\ plock' = None
  /\ IF r.us # Null /\ r.uslk
     THEN /\ clock' = [clock EXCEPT ![r.us] = None]
          /\ Set(t, [r EXCEPT !.pc = "cda"])
     ELSE /\ UNCHANGED clock
          /\ Set(t, [r EXCEPT !.pc = "sleep"])
  /\ UNCHANGED <<pairVars, regVars, envVars, destroyed, uaf, exists, tech_pvt, readq,
                 enqlog, generator, bridge, bridged, obridge, hungup, moh, ringing, masq,
                 pbx, obs, seqno, nops>>

\* the end of CHANNEL_DEADLOCK_AVOIDANCE(us) and a successful
\* ast_mutex_trylock(&p->lock); other is recomputed
QueueRelockUs(t) ==
  LET r == thr[t] IN
  /\ r.pc = "cda"
  /\ clock[r.us] = None
  /\ plock = None
  /\ clock' = [clock EXCEPT ![r.us] = t]
  /\ plock' = t
  /\ uaf' = (uaf \/ Freed)
  /\ Set(t, [r EXCEPT !.pc = "try", !.other = Other(r.isout)])
  /\ UNCHANGED <<pairVars, regVars, envVars, destroyed, exists, tech_pvt, readq,
                 enqlog, generator, bridge, bridged, obridge, hungup, moh, ringing, masq,
                 pbx, obs, seqno, nops>>

\* QueueRelockUs in its two steps.  The end of CHANNEL_DEADLOCK_AVOIDANCE(us):
\* ast_channel_lock(us) is granted
QueueLockUs(t) ==
  LET r == thr[t] IN
  /\ r.pc = "cda"
  /\ clock[r.us] = None
  /\ clock' = [clock EXCEPT ![r.us] = t]
  /\ Set(t, [r EXCEPT !.pc = "cdp"])
  /\ UNCHANGED <<pairVars, regVars, envVars, plock, destroyed, uaf, exists, tech_pvt,
                 readq, enqlog, generator, bridge, bridged, obridge, hungup, moh, ringing,
                 masq, pbx, obs, seqno, nops>>

\* ast_mutex_trylock(&p->lock) with us locked: when it succeeds other is
\* recomputed and the loop tries other again, when it fails
\* CHANNEL_DEADLOCK_AVOIDANCE(us) unlocks us again
QueueTrylockPair(t) ==
  LET r == thr[t] IN
  /\ r.pc = "cdp"
  /\ IF plock = None
     THEN /\ plock' = t
          /\ uaf' = (uaf \/ Freed)
          /\ Set(t, [r EXCEPT !.pc = "try", !.other = Other(r.isout)])
          /\ UNCHANGED clock
     ELSE /\ clock' = [clock EXCEPT ![r.us] = None]
          /\ Set(t, [r EXCEPT !.pc = "cda"])
          /\ UNCHANGED <<plock, uaf>>
  /\ UNCHANGED <<pairVars, regVars, envVars, destroyed, exists, tech_pvt, readq,
                 enqlog, generator, bridge, bridged, obridge, hungup, moh, ringing, masq,
                 pbx, obs, seqno, nops>>

\* usleep(1); ast_mutex_lock(&p->lock); other is recomputed
QueueRelock(t) ==
  LET r == thr[t] IN
  /\ r.pc = "sleep"
  /\ plock = None
  /\ plock' = t
  /\ uaf' = (uaf \/ Freed)
  /\ Set(t, [r EXCEPT !.pc = "try", !.other = Other(r.isout)])
  /\ UNCHANGED <<pairVars, regVars, envVars, destroyed, exists, tech_pvt, clock, readq,
                 enqlog, generator, bridge, bridged, obridge, hungup, moh, ringing, masq,
                 pbx, obs, seqno, nops>>

\* what ast_test_flag(p, LOCAL_CANCEL_QUEUE) can read: the flag, or anything
\* once the pair was freed
CancelRead == IF Freed THEN BOOLEAN ELSE {LOCAL_CANCEL_QUEUE \in flags}

\* the loop is left with LOCAL_CANCEL_QUEUE set: the pair is unlocked, to be
\* destroyed
QueueCancel(t) ==
  LET r == thr[t] IN
  /\ r.pc = "try"
  /\ Free(r.other)
  /\ TRUE \in CancelRead
  /\ plock' = None
  /\ clock' = IF r.other # Null THEN [clock EXCEPT ![r.other] = t] ELSE clock
  /\ Set(t, [r EXCEPT !.pc = "destroy"])
  /\ UNCHANGED <<pairVars, regVars, envVars, destroyed, uaf, exists, tech_pvt, readq,
                 enqlog, generator, bridge, bridged, obridge, hungup, moh, ringing, masq,
                 pbx, obs, seqno, nops>>

\* p = local_pvt_destroy(p); other is unlocked; return -1
QueueDestroy(t) ==
  LET r == thr[t] IN
  /\ r.pc = "destroy"
  /\ destroyed' = destroyed + 1
  /\ clock' = IF r.other # Null THEN [clock EXCEPT ![r.other] = None] ELSE clock
  /\ Set(t, [r EXCEPT !.pc = "ret", !.res = IF r.kind = "hangup" THEN 0 ELSE -1])
  /\ UNCHANGED <<pairVars, regVars, envVars, plock, uaf, exists, tech_pvt, readq,
                 enqlog, generator, bridge, bridged, obridge, hungup, moh, ringing, masq,
                 pbx, obs, seqno, nops>>

\* the loop is left with LOCAL_CANCEL_QUEUE clear: the frame is queued on
\* other, LOCAL_GLARE_DETECT is cleared, 0 is returned and the caller unlocks
\* the pair
QueueDeliver(t) ==
  LET r == thr[t] IN
  /\ r.pc = "try"
  /\ Free(r.other)
  /\ FALSE \in CancelRead
  /\ IF r.other # Null
     THEN /\ ast_queue_frame(r.other, r.f)
          /\ ringing' = IF r.f.type = "CONTROL" /\ r.f.sub = "RINGING"
                        THEN [ringing EXCEPT ![r.other] = TRUE] ELSE ringing
     ELSE UNCHANGED <<readq, enqlog, ringing>>
  /\ flags' = flags \ {LOCAL_GLARE_DETECT}
  /\ plock' = None
  /\ Set(t, [r EXCEPT !.pc = "ret", !.res = 0])
  /\ UNCHANGED <<alloc, owner, chan, exten, context, jb, jberr, umod, regVars,
                 envVars, destroyed, uaf, exists, tech_pvt, clock, generator, bridge,
                 bridged, obridge, hungup, moh, masq, pbx, obs, seqno, nops>>

\* the operation returns to the switch, which releases the endpoint locks it
\* took for the call
Return(t) ==
  /\ thr[t].pc = "ret"
  /\ clock' = [c \in Chans |-> IF c \in Locals /\ clock[c] = t THEN None ELSE clock[c]]
  /\ Set(t, Idle)
  /\ UNCHANGED <<pairVars, regVars, envVars, plock, destroyed, uaf, exists, tech_pvt,
                 readq, enqlog, generator, bridge, bridged, obridge, hungup, moh, ringing,
                 masq, pbx, obs, seqno, nops>>

(***************************************************************************)
(* local_hangup.                                                           *)
(***************************************************************************)
HangupFrame(t, n) == [type |-> "CONTROL", sub |-> "HANGUP", by |-> t, n |-> n]

\* the switch is in ast_hangup(c)
InHangup(c) ==
  \E u \in Threads :
    thr[u].kind = "hangup" /\ thr[u].outer = c /\ thr[u].pc # "idle"

\* ast_hangup(c) by the switch, which hangs a channel up from one thread only:
\* c is locked and local_hangup reads ast->tech_pvt.  B is hung up from
\* outside only by the PBX started on it.
BeginHangup(t, c, st) ==
  /\ thr[t].pc = "idle"
  /\ nops < MaxOps
  /\ exists[c]
  /\ ~InHangup(c)
  /\ c = "B" => pbx
  /\ st => c = "B"
  /\ clock[c] = None
  /\ clock' = [clock EXCEPT ![c] = t]
  /\ nops' = nops + 1
  /\ seqno' = [seqno EXCEPT ![t] = @ + 1]
  /\ LET r == [Idle EXCEPT !.kind = "hangup", !.ast = c, !.outer = c, !.uslk = TRUE,
                           !.status = st, !.f = HangupFrame(t, seqno[t] + 1)]
     IN  IF tech_pvt[c]
         THEN Set(t, [r EXCEPT !.pc = "lockp"])
         ELSE Set(t, [r EXCEPT !.pc = "ret", !.res = -1])
  /\ UNCHANGED <<pairVars, regVars, envVars, plock, destroyed, uaf, exists, tech_pvt,
                 readq, enqlog, generator, bridge, bridged, obridge, hungup, moh, ringing,
                 masq, pbx, obs>>

\* ast_mutex_lock(&p->lock); isoutbound; on the A side the module reference
\* of A is released before the lock loop
LockHangup(t) ==
  LET r  == thr[t]
      io == IS_OUTBOUND(r.ast)
  IN
  /\ r.pc = "lockp"
  /\ r.kind = "hangup"
  /\ plock = None
  /\ plock' = t
  /\ uaf' = (uaf \/ Freed)
  /\ umod' = IF io THEN umod ELSE [umod EXCEPT !.owner = @ - 1]
  /\ Set(t, [r EXCEPT !.pc = "h_try", !.isout = io])
  /\ UNCHANGED <<alloc, owner, chan, flags, exten, context, jb, jberr, regVars,
                 envVars, destroyed, exists, tech_pvt, clock, readq, enqlog,
                 generator, bridge, bridged, obridge, hungup, moh, ringing, masq, pbx, obs,
                 seqno, nops>>

\* the channel the lock loop of local_hangup wants: p->owner on the B side
\* (only when DIALSTATUS is set), p->chan on the A side
HangupTarget(r) ==
  IF r.isout THEN (IF r.status THEN owner ELSE Null) ELSE chan

\* the trylock fails: the pair and the endpoint being hung up are unlocked
HangupBackoff(t) ==
  LET r   == thr[t]
      tgt == HangupTarget(r)
      own == IF r.isout THEN chan ELSE owner
  IN
  /\ r.pc = "h_try"
  /\ Busy(tgt)
  /\ plock' = None
  /\ clock' = IF own # Null THEN [clock EXCEPT ![own] = None] ELSE clock
  /\ Set(t, [r EXCEPT !.pc = "h_sleep"])
  /\ UNCHANGED <<pairVars, regVars, envVars, destroyed, uaf, exists, tech_pvt, readq,
                 enqlog, generator, bridge, bridged, obridge, hungup, moh, ringing, masq,
                 pbx, obs, seqno, nops>>

\* usleep(1); the endpoint being hung up is locked again if the pair still
\* names it
HangupRelockChan(t) ==
  LET r   == thr[t]
      own == IF r.isout THEN chan ELSE owner
  IN
  /\ r.pc = "h_sleep"
  /\ Free(own)
  /\ clock' = IF own # Null THEN [clock EXCEPT ![own] = t] ELSE clock
  /\ uaf' = (uaf \/ Freed)
  /\ Set(t, [r EXCEPT !.pc = "h_relockp"])
  /\ UNCHANGED <<pairVars, regVars, envVars, plock, destroyed, exists, tech_pvt, readq,
                 enqlog, generator, bridge, bridged, obridge, hungup, moh, ringing, masq,
                 pbx, obs, seqno, nops>>

\* ast_mutex_lock(&p->lock) at the end of a turn of the lock loop
HangupRelock(t) ==
  LET r == thr[t] IN
  /\ r.pc = "h_relockp"
  /\ plock = None
  /\ plock' = t
  /\ uaf' = (uaf \/ Freed)
  /\ Set(t, [r EXCEPT !.pc = "h_try"])
  /\ UNCHANGED <<pairVars, regVars, envVars, destroyed, exists, tech_pvt, clock, readq,
                 enqlog, generator, bridge, bridged, obridge, hungup, moh, ringing, masq,
                 pbx, obs, seqno, nops>>

\* ast->tech_pvt is left as it is
KeepTechPvt(c) == tech_pvt

\* ast->tech_pvt = NULL
ClearTechPvt(c) == [tech_pvt EXCEPT ![c] = FALSE]

\* the frame is always sent
NeverHangsUpOther(ch, fl) == FALSE

\* p->chan && !ast_test_flag(p, LOCAL_LAUNCHED_PBX): ochan = p->chan
HangsUpOther(ch, fl) == ch # Null /\ LOCAL_LAUNCHED_PBX \notin fl

\* the lock loop is left: the endpoint is detached from the pair (on the A
\* side ast_queue_hangup(p->chan) comes with it), ast->tech_pvt is cleared, and
\* local_hangup goes one of its three ways
HangupDetach(t) ==
  LET r   == thr[t]
      tgt == HangupTarget(r)
      ow  == IF r.isout THEN owner ELSE Null
      ch  == IF r.isout THEN Null ELSE chan
      fl  == IF r.isout THEN flags \ {LOCAL_LAUNCHED_PBX} ELSE flags
      gl  == LOCAL_GLARE_DETECT \in fl
  IN
  /\ r.pc = "h_try"
  /\ Free(tgt)
  /\ owner' = ow
  /\ chan' = ch
  /\ umod' = IF r.isout THEN [umod EXCEPT !.chan = @ - 1] ELSE umod
  /\ tech_pvt' = ClearTechPvt(r.ast)
  /\ IF ~r.isout /\ chan # Null
     THEN /\ ast_queue_frame(chan, HangupFrame(t, 0))
          /\ hungup' = [hungup EXCEPT ![chan] = TRUE]
     ELSE UNCHANGED <<readq, enqlog, hungup>>
  /\ IF ow = Null /\ ch = Null
     THEN \* done with the private part too
          /\ flags' = IF gl THEN fl \cup {LOCAL_CANCEL_QUEUE} ELSE fl
          /\ Set(t, [r EXCEPT !.pc = "h_list", !.glare = gl])
          /\ UNCHANGED plock
     ELSE IF HangsUpOther(ch, fl)
     THEN \* no PBX on B: B is hung up directly, after the pair is unlocked
          /\ flags' = fl
          /\ plock' = None
          /\ Set(t, [r EXCEPT !.pc = "ohangup"])
     ELSE \* local_queue_frame(p, isoutbound, &f, NULL, 1)
          /\ flags' = fl \cup {LOCAL_GLARE_DETECT}
          /\ Set(t, [r EXCEPT !.pc = "try", !.fwd = TRUE,
                              !.other = IF r.isout THEN ow ELSE ch])
          /\ UNCHANGED plock
  /\ UNCHANGED <<alloc, exten, context, jb, jberr, regVars, envVars, destroyed, uaf,
                 exists, clock, generator, bridge, bridged, obridge, moh, ringing, masq, pbx,
                 obs, seqno, nops>>

\* both handles are null: the pair leaves the list, is unlocked, and is
\* destroyed unless glare was detected
HangupRemove(t) ==
  LET r == thr[t] IN
  /\ r.pc = "h_list"
  /\ llock = None
  /\ inList' = FALSE
  /\ plock' = None
  /\ destroyed' = IF r.glare THEN destroyed ELSE destroyed + 1
  /\ Set(t, [r EXCEPT !.pc = "ret", !.res = 0])
  /\ UNCHANGED <<pairVars, others, llock, envVars, uaf, exists, tech_pvt, clock, readq,
                 enqlog, generator, bridge, bridged, obridge, hungup, moh, ringing, masq,
                 pbx, obs, seqno, nops>>

\* ast_hangup(ochan): B is locked and local_hangup runs on it
HangupOther(t) ==
  LET r == thr[t] IN
  /\ r.pc = "ohangup"
  /\ clock["B"] = None
  /\ clock' = [clock EXCEPT !["B"] = t]
  /\ \E st \in BOOLEAN :
       IF tech_pvt["B"]
       THEN Set(t, [r EXCEPT !.pc = "lockp", !.ast = "B", !.status = st])
       ELSE st = FALSE /\ Set(t, [r EXCEPT !.pc = "ret", !.res = 0, !.ast = "B"])
  /\ UNCHANGED <<pairVars, regVars, envVars, plock, destroyed, uaf, exists, tech_pvt,
                 readq, enqlog, generator, bridge, bridged, obridge, hungup, moh, ringing,
                 masq, pbx, obs, seqno, nops>>

(***************************************************************************)
(* local_call.                                                             *)
(***************************************************************************)
\* ast_call on A, whose lock the switch holds
BeginCall(t) ==
  /\ thr[t].pc = "idle"
  /\ nops < MaxOps
  /\ exists["A"]
  /\ ~pbx
  /\ clock["A"] = None
  /\ clock' = [clock EXCEPT !["A"] = t]
  /\ nops' = nops + 1
  /\ LET r == [Idle EXCEPT !.kind = "call", !.ast = "A"]
     IN  IF tech_pvt["A"]
         THEN Set(t, [r EXCEPT !.pc = "call_try"])
         ELSE Set(t, [r EXCEPT !.pc = "ret", !.res = -1])
  /\ UNCHANGED <<pairVars, regVars, envVars, plock, destroyed, uaf, exists, tech_pvt,
                 readq, enqlog, generator, bridge, bridged, obridge, hungup, moh, ringing,
                 masq, pbx, obs, seqno>>

\* ast_exists_extension(NULL, context, exten, 1, ...)
ast_exists_extension(ctx, ext) == <<ctx, ext>> \in dialplan

\* p->chan is read with no lock held: a null or freed pointer is undefined
CallUndefined(t) ==
  LET r == thr[t] IN
  /\ r.pc \in {"call_try", "call_sleep"}
  /\ IF Freed THEN TRUE ELSE IF r.pc = "call_try" THEN chan = Null ELSE owner = Null
  /\ uaf' = TRUE
  /\ Set(t, [r EXCEPT !.pc = "ret", !.res = -1])
  /\ UNCHANGED <<pairVars, regVars, envVars, plock, destroyed, exists, tech_pvt, clock,
                 readq, enqlog, generator, bridge, bridged, obridge, hungup, moh, ringing,
                 masq, pbx, obs, seqno, nops>>

\* ast_channel_trylock(p->chan) succeeds: p->owner and p->chan are locked
CallLockChan(t) ==
  LET r == thr[t] IN
  /\ r.pc = "call_try"
  /\ ~Freed /\ chan # Null
  /\ clock[chan] = None
  /\ clock' = [clock EXCEPT ![chan] = t]
  /\ Set(t, [r EXCEPT !.pc = "call_tryp"])
  /\ UNCHANGED <<pairVars, regVars, envVars, plock, destroyed, uaf, exists, tech_pvt,
                 readq, enqlog, generator, bridge, bridged, obridge, hungup, moh, ringing,
                 masq, pbx, obs, seqno, nops>>

\* ast_channel_trylock(p->chan) fails: p->owner is unlocked
CallBackoff(t) ==
  LET r == thr[t] IN
  /\ r.pc = "call_try"
  /\ ~Freed /\ chan # Null
  /\ clock[chan] # None
  /\ clock' = [clock EXCEPT !["A"] = None]
  /\ Set(t, [r EXCEPT !.pc = "call_sleep"])
  /\ UNCHANGED <<pairVars, regVars, envVars, plock, destroyed, uaf, exists, tech_pvt,
                 readq, enqlog, generator, bridge, bridged, obridge, hungup, moh, ringing,
                 masq, pbx, obs, seqno, nops>>

\* ast_mutex_trylock(&p->lock) succeeds
CallLockPair(t) ==
  LET r == thr[t] IN
  /\ r.pc = "call_tryp"
  /\ plock = None
  /\ plock' = t
  /\ Set(t, [r EXCEPT !.pc = "call_locked"])
  /\ UNCHANGED <<pairVars, regVars, envVars, destroyed, uaf, exists, tech_pvt, clock,
                 readq, enqlog, generator, bridge, bridged, obridge, hungup, moh, ringing,
                 masq, pbx, obs, seqno, nops>>

\* ast_mutex_trylock(&p->lock) fails: p->chan and p->owner are unlocked
CallBackoffPair(t) ==
  LET r == thr[t] IN
  /\ r.pc = "call_tryp"
  /\ plock # None
  /\ clock' = [c \in Chans |-> IF c \in Locals /\ clock[c] = t THEN None ELSE clock[c]]
  /\ Set(t, [r EXCEPT !.pc = "call_sleep"])
  /\ UNCHANGED <<pairVars, regVars, envVars, plock, destroyed, uaf, exists, tech_pvt,
                 readq, enqlog, generator, bridge, bridged, obridge, hungup, moh, ringing,
                 masq, pbx, obs, seqno, nops>>

\* usleep(1); ast_channel_lock(p->owner)
CallRelock(t) ==
  LET r == thr[t] IN
  /\ r.pc = "call_sleep"
  /\ ~Freed /\ owner # Null
  /\ clock[owner] = None
  /\ clock' = [clock EXCEPT ![owner] = t]
  /\ Set(t, [r EXCEPT !.pc = "call_try"])
  /\ UNCHANGED <<pairVars, regVars, envVars, plock, destroyed, uaf, exists, tech_pvt,
                 readq, enqlog, generator, bridge, bridged, obridge, hungup, moh, ringing,
                 masq, pbx, obs, seqno, nops>>

\* what local_call returns: -1 with no extension, else what ast_pbx_start
\* returned
CallResult(ok, started) == IF ok /\ started THEN 0 ELSE -1

CallLaunchesIfExists(ok, started) == ok

\* LOCAL_LAUNCHED_PBX is set after ast_pbx_start returned 0, which is only
\* called when the extension exists
CallLaunches(ok, started) == ok /\ started

\* p->owner, p->chan and the pair are locked: the extension is checked, the
\* PBX is started on B (started says whether ast_pbx_start succeeds), the pair
\* and p->chan are unlocked
CallStart(t, started) ==
  LET r  == thr[t]
      ok == ast_exists_extension(context, exten)
  IN
  /\ r.pc = "call_locked"
  /\ ~ok => ~started
  /\ flags' = IF CallLaunches(ok, started) THEN flags \cup {LOCAL_LAUNCHED_PBX} ELSE flags
  /\ pbx' = (pbx \/ (ok /\ started))
  /\ plock' = None
  /\ clock' = [clock EXCEPT ![chan] = None]
  /\ Set(t, [r EXCEPT !.pc = "ret", !.res = CallResult(ok, started),
                      !.arg = IF ~ok THEN "noexten"
                              ELSE IF started THEN "pbx_ok" ELSE "pbx_fail"])
  /\ UNCHANGED <<alloc, owner, chan, exten, context, jb, jberr, umod, regVars,
                 envVars, destroyed, uaf, exists, tech_pvt, readq,
                 enqlog, generator, bridge, bridged, obridge, hungup, moh, ringing, masq, obs,
                 seqno, nops>>

(***************************************************************************)
(* local_request: local_alloc, local_new and the unwinding.                *)
(***************************************************************************)
\* local_alloc: the destination is parsed into the new pair, which is put at
\* the head of the list locals
RequestAlloc(t) ==
  LET a == local_alloc_parse(dest) IN
  /\ thr[t].pc = "idle"
  /\ nops < MaxOps
  /\ ~alloc
  /\ llock = None
  /\ alloc' = TRUE
  /\ exten' = a.exten
  /\ context' = a.context
  /\ flags' = a.flags
  /\ jb' = a.jb
  /\ jberr' = a.jberr
  /\ inList' = TRUE
  /\ nops' = nops + 1
  /\ Set(t, [Idle EXCEPT !.kind = "request", !.pc = "req_new"])
  /\ UNCHANGED <<owner, chan, umod, others, llock, envVars, plock, destroyed, uaf,
                 chanVars, pbx, obs, seqno>>

\* local_new cannot allocate the channels: the pair leaves the list and is
\* destroyed; NULL is returned
RequestNoChannel(t) ==
  /\ thr[t].pc = "req_new"
  /\ llock = None
  /\ inList' = FALSE
  /\ destroyed' = destroyed + 1
  /\ Set(t, [thr[t] EXCEPT !.pc = "ret", !.res = -1, !.arg = "nochan"])
  /\ UNCHANGED <<pairVars, others, llock, envVars, plock, uaf, chanVars, pbx, obs,
                 seqno, nops>>

\* the channels point at the pair, which does not point back at them
local_new_unbound ==
  /\ UNCHANGED <<owner, chan>>
  /\ umod' = [owner |-> umod.owner + 1, chan |-> umod.chan + 1]
  /\ tech_pvt' = [tech_pvt EXCEPT !["A"] = TRUE, !["B"] = TRUE]

\* local_new binds the two channels to the pair and takes the two module
\* references
local_new_bind ==
  /\ owner' = "A"
  /\ chan' = "B"
  /\ umod' = [owner |-> umod.owner + 1, chan |-> umod.chan + 1]
  /\ tech_pvt' = [tech_pvt EXCEPT !["A"] = TRUE, !["B"] = TRUE]

\* local_new succeeds and so does ast_channel_cc_params_init: A is returned
RequestOk(t) ==
  /\ thr[t].pc = "req_new"
  /\ local_new_bind
  /\ exists' = [exists EXCEPT !["A"] = TRUE, !["B"] = TRUE]
  /\ Set(t, [thr[t] EXCEPT !.pc = "ret", !.res = 0, !.arg = "ok"])
  /\ UNCHANGED <<alloc, flags, exten, context, jb, jberr, regVars, envVars, plock,
                 destroyed, uaf, clock, readq, enqlog, generator, bridge, bridged, obridge,
                 hungup, moh, ringing, masq, pbx, obs, seqno, nops>>

\* local_new succeeds but ast_channel_cc_params_init fails: A is released
\* and the pair destroyed, B stays allocated and the pair stays in the list;
\* NULL is returned
RequestCcFail(t) ==
  /\ thr[t].pc = "req_new"
  /\ local_new_bind
  /\ exists' = [exists EXCEPT !["B"] = TRUE]
  /\ destroyed' = destroyed + 1
  /\ Set(t, [thr[t] EXCEPT !.pc = "ret", !.res = -1, !.arg = "ccfail"])
  /\ UNCHANGED <<alloc, flags, exten, context, jb, jberr, regVars, envVars, plock,
                 uaf, clock, readq, enqlog, generator, bridge, bridged, obridge,
                 hungup, moh, ringing, masq, pbx, obs, seqno, nops>>

(***************************************************************************)
(* local_devicestate.                                                      *)
(***************************************************************************)
\* the pairs of the list, all taken to have their A endpoint
ListEntriesAllOwned ==
  {[lp EXCEPT !.owned = TRUE] : lp \in
     others \cup (IF inList
                  THEN {[exten |-> exten, context |-> context, owned |-> owner # Null]}
                  ELSE {})}

\* the pairs of the list locals, as the traversal reads them
ListEntries ==
  others \cup (IF inList
               THEN {[exten |-> exten, context |-> context, owned |-> owner # Null]}
               ELSE {})

DeviceState(data) ==
  LET d == devicestate_parse(data) IN
  IF ~d.ok THEN "INVALID"
  ELSE IF ~ast_exists_extension(d.context, d.exten) THEN "INVALID"
  ELSE IF \E lp \in ListEntries :
            lp.exten = d.exten /\ lp.context = d.context /\ lp.owned
       THEN "INUSE"
       ELSE "NOT_INUSE"

\* destinations the device state is asked for
DevStrings ==
  { <<"e", "@", "e">>, <<"e">>, <<"e", "@", "e", "/", "n">>, <<"b", "@", "e">>,
    <<"e", "@", "b">>, <<"e", "/", "n", "@", "e">> }

\* the list is traversed under its lock, which is released before returning
Devicestate(data) ==
  /\ obs.op = None
  /\ DeviceState(data) # "INVALID" => llock = None
  /\ obs' = [op |-> "devicestate", data |-> data, res |-> DeviceState(data)]
  /\ uaf' = (uaf \/ (DeviceState(data) # "INVALID" /\ inList /\ Freed))
  /\ UNCHANGED <<pairVars, regVars, envVars, plock, destroyed, chanVars, pbx, thr,
                 seqno, nops>>

\* the caller has used the answer
ObsClear ==
  /\ obs.op # None
  /\ obs' = NoObs
  /\ UNCHANGED <<pairVars, regVars, envVars, plock, destroyed, uaf, chanVars, pbx, thr,
                 seqno, nops>>

(***************************************************************************)
(* manager_optimize_away (LocalOptimizeAway).                              *)
(***************************************************************************)
\* Channel headers: missing, a channel that does not exist, a channel of
\* another driver, and the two endpoints
Headers == {"", "nochan", "Y", "A", "B"}

\* ast_channel_get_by_name
ChannelExists(h) == h = "Y" \/ (h \in Locals /\ exists[h])

\* c->tech_pvt is the pair
HeaderPvtIsPair(h) == h \in Locals /\ tech_pvt[h]

\* the header is read and the channel looked up; with no channel the action
\* answers with an error
BeginManager(t, h) ==
  /\ thr[t].pc = "idle"
  /\ nops < MaxOps
  /\ nops' = nops + 1
  /\ LET r == [Idle EXCEPT !.kind = "manager", !.arg = h]
     IN  IF h = "" \/ ~ChannelExists(h)
         THEN Set(t, [r EXCEPT !.pc = "ret", !.status = FALSE])
         ELSE Set(t, [r EXCEPT !.pc = "mgr_list", !.pre = HeaderPvtIsPair(h)])
  /\ UNCHANGED <<pairVars, regVars, envVars, plock, destroyed, uaf, chanVars, pbx,
                 obs, seqno>>

\* AST_LIST_LOCK(&locals) and the traversal up to the pair
ManagerList(t) ==
  LET r == thr[t] IN
  /\ r.pc = "mgr_list"
  /\ llock = None
  /\ IF r.pre /\ inList
     THEN llock' = t /\ Set(t, [r EXCEPT !.pc = "mgr_lockp"])
     ELSE UNCHANGED llock /\ Set(t, [r EXCEPT !.pc = "ret", !.status = FALSE])
  /\ UNCHANGED <<pairVars, inList, others, envVars, plock, destroyed, uaf, chanVars,
                 pbx, obs, seqno, nops>>

\* every option flag is cleared
ClearOptionFlags ==
  flags \ {LOCAL_NO_OPTIMIZATION, LOCAL_BRIDGE, LOCAL_MOH_PASSTHRU}

\* the flags are left as they are
KeepNoOptimization == flags

\* ast_clear_flag(tmp, LOCAL_NO_OPTIMIZATION)
ClearNoOptimization == flags \ {LOCAL_NO_OPTIMIZATION}

\* the pair is locked under the list lock, LOCAL_NO_OPTIMIZATION cleared,
\* both locks released
ManagerClear(t) ==
  LET r == thr[t] IN
  /\ r.pc = "mgr_lockp"
  /\ plock = None
  /\ flags' = ClearNoOptimization
  /\ llock' = None
  /\ uaf' = (uaf \/ Freed)
  /\ Set(t, [r EXCEPT !.pc = "ret", !.status = TRUE])
  /\ UNCHANGED <<alloc, owner, chan, exten, context, jb, jberr, umod, inList, others,
                 envVars, plock, destroyed, chanVars, pbx, obs, seqno, nops>>

(***************************************************************************)
(* local_bridgedchannel.                                                   *)
(***************************************************************************)
\* c->_bridge of an endpoint
BridgeOf(c) == IF c = "A" THEN obridge ELSE IF c = "B" THEN bridge ELSE Null

\* the opposite endpoint itself is reported, bridged or not
local_bridgedchannel_nohop(b) ==
  IF ~tech_pvt[b] THEN Null
  ELSE IF LOCAL_BRIDGE \in flags
       THEN LET opp == IF b = owner THEN chan ELSE owner
            IN  IF opp = Null THEN b ELSE opp
       ELSE b

\* what local_bridgedchannel(chan, bridge) returns for bridge = b
local_bridgedchannel(b) ==
  IF ~tech_pvt[b] THEN Null
  ELSE IF LOCAL_BRIDGE \in flags
       THEN LET opp == IF b = owner THEN chan ELSE owner
            IN  IF opp = Null THEN b
                ELSE IF BridgeOf(opp) # Null THEN BridgeOf(opp)
                ELSE opp
       ELSE b

\* the switch asks for the bridged channel of endpoint b; the pair is locked
\* while its flag and handles are read
Bridgedchannel(b) ==
  /\ obs.op = None
  /\ exists[b]
  /\ tech_pvt[b] => plock = None
  /\ obs' = [op |-> "bridgedchannel", data |-> <<b>>, res |-> local_bridgedchannel(b)]
  /\ uaf' = (uaf \/ (tech_pvt[b] /\ Freed))
  /\ UNCHANGED <<pairVars, regVars, envVars, plock, destroyed, chanVars, pbx, thr,
                 seqno, nops>>

(***************************************************************************)
(* local_queryoption.                                                      *)
(***************************************************************************)
QueryOptions == {"T38_STATE", "OTHER"}

\* ast_bridged_channel(c) of an endpoint
ast_bridged_channel(c) ==
  IF c = "A" THEN obridge ELSE IF c = "B" THEN bridged ELSE Null

\* the channel lock is left as it is
KeepLocked(lk, c) == lk

\* ast_channel_unlock(c)
Unlock(lk, c) == [lk EXCEPT ![c] = None]

\* ast->tech_pvt is read and the option tested; nothing is locked yet
BeginQuery(t, c, opt) ==
  /\ thr[t].pc = "idle"
  /\ nops < MaxOps
  /\ exists[c]
  /\ nops' = nops + 1
  /\ LET r == [Idle EXCEPT !.kind = "query", !.ast = c, !.arg = opt]
     IN  IF ~tech_pvt[c] \/ opt # "T38_STATE"
         THEN Set(t, [r EXCEPT !.pc = "ret", !.res = -1])
         ELSE Set(t, [r EXCEPT !.pc = "q_lockp"])
  /\ UNCHANGED <<pairVars, regVars, envVars, plock, destroyed, uaf, chanVars, pbx,
                 obs, seqno>>

\* ast_mutex_lock(&p->lock), at the start and at the end of
\* DEADLOCK_AVOIDANCE(&p->lock); chan = IS_OUTBOUND(ast, p) ? p->owner : p->chan
QueryLock(t) ==
  LET r == thr[t] IN
  /\ r.pc \in {"q_lockp", "q_sleep"}
  /\ plock = None
  /\ plock' = t
  /\ uaf' = (uaf \/ Freed)
  /\ Set(t, [r EXCEPT !.pc = "q_try", !.isout = IS_OUTBOUND(r.ast),
                      !.other = Other(IS_OUTBOUND(r.ast))])
  /\ UNCHANGED <<pairVars, regVars, envVars, destroyed, chanVars, pbx, obs, seqno,
                 nops>>

\* !chan: the pair is unlocked and -1 returned
QueryNoChan(t) ==
  LET r == thr[t] IN
  /\ r.pc = "q_try"
  /\ r.other = Null
  /\ plock' = None
  /\ Set(t, [r EXCEPT !.pc = "ret", !.res = -1])
  /\ UNCHANGED <<pairVars, regVars, envVars, destroyed, uaf, chanVars, pbx, obs,
                 seqno, nops>>

\* ast_channel_trylock(chan) fails: DEADLOCK_AVOIDANCE(&p->lock) unlocks the pair
QueryBackoff(t) ==
  LET r == thr[t] IN
  /\ r.pc = "q_try"
  /\ r.other # Null
  /\ Busy(r.other)
  /\ plock' = None
  /\ Set(t, [r EXCEPT !.pc = "q_sleep"])
  /\ UNCHANGED <<pairVars, regVars, envVars, destroyed, uaf, chanVars, pbx, obs,
                 seqno, nops>>

\* ast_channel_trylock(chan) succeeds
QueryLockChan(t) ==
  LET r == thr[t] IN
  /\ r.pc = "q_try"
  /\ r.other # Null
  /\ Free(r.other)
  /\ clock' = [clock EXCEPT ![r.other] = t]
  /\ Set(t, [r EXCEPT !.pc = "q_bridged"])
  /\ UNCHANGED <<pairVars, regVars, envVars, plock, destroyed, uaf, exists, tech_pvt,
                 readq, enqlog, generator, bridge, bridged, obridge, hungup, moh,
                 ringing, masq, pbx, obs, seqno, nops>>

\* chan has no bridged channel: the pair and chan are unlocked and -1 returned
QueryNoBridge(t) ==
  LET r == thr[t] IN
  /\ r.pc = "q_bridged"
  /\ ast_bridged_channel(r.other) = Null
  /\ plock' = None
  /\ clock' = Unlock(clock, r.other)
  /\ Set(t, [r EXCEPT !.pc = "ret", !.res = -1])
  /\ UNCHANGED <<pairVars, regVars, envVars, destroyed, uaf, exists, tech_pvt,
                 readq, enqlog, generator, bridge, bridged, obridge, hungup, moh,
                 ringing, masq, pbx, obs, seqno, nops>>

\* ast_channel_trylock(bridged) fails: chan is unlocked and
\* DEADLOCK_AVOIDANCE(&p->lock) unlocks the pair
QueryPeerBackoff(t) ==
  LET r == thr[t] IN
  /\ r.pc = "q_bridged"
  /\ ast_bridged_channel(r.other) # Null
  /\ Busy(ast_bridged_channel(r.other))
  /\ plock' = None
  /\ clock' = Unlock(clock, r.other)
  /\ Set(t, [r EXCEPT !.pc = "q_sleep"])
  /\ UNCHANGED <<pairVars, regVars, envVars, destroyed, uaf, exists, tech_pvt,
                 readq, enqlog, generator, bridge, bridged, obridge, hungup, moh,
                 ringing, masq, pbx, obs, seqno, nops>>

\* ast_channel_trylock(bridged) succeeds
QueryLockPeer(t) ==
  LET r == thr[t] IN
  /\ r.pc = "q_bridged"
  /\ ast_bridged_channel(r.other) # Null
  /\ Free(ast_bridged_channel(r.other))
  /\ clock' = [clock EXCEPT ![ast_bridged_channel(r.other)] = t]
  /\ Set(t, [r EXCEPT !.pc = "q_ask", !.outer = ast_bridged_channel(r.other)])
  /\ UNCHANGED <<pairVars, regVars, envVars, plock, destroyed, uaf, exists, tech_pvt,
                 readq, enqlog, generator, bridge, bridged, obridge, hungup, moh,
                 ringing, masq, pbx, obs, seqno, nops>>

\* res = ast_channel_queryoption(bridged, ...), whose answer ans is the
\* peer's; the pair, chan and bridged are unlocked
QueryAsk(t, ans) ==
  LET r == thr[t] IN
  /\ r.pc = "q_ask"
  /\ plock' = None
  /\ clock' = Unlock(Unlock(clock, r.other), r.outer)
  /\ Set(t, [r EXCEPT !.pc = "ret", !.res = ans])
  /\ UNCHANGED <<pairVars, regVars, envVars, destroyed, uaf, exists, tech_pvt,
                 readq, enqlog, generator, bridge, bridged, obridge, hungup, moh,
                 ringing, masq, pbx, obs, seqno, nops>>

(***************************************************************************)
(* locals_show (CLI "local show channels").                                *)
(***************************************************************************)
\* the command is run with its three words
BeginShow(t) ==
  /\ thr[t].pc = "idle"
  /\ nops < MaxOps
  /\ nops' = nops + 1
  /\ Set(t, [Idle EXCEPT !.kind = "show", !.pc = "cli_list"])
  /\ UNCHANGED <<pairVars, regVars, envVars, plock, destroyed, uaf, chanVars, pbx,
                 obs, seqno>>

\* AST_LIST_LOCK(&locals); an empty list is reported and the lock released,
\* otherwise the traversal comes to a pair, whose mutex it wants
ShowList(t) ==
  LET r == thr[t] IN
  /\ r.pc = "cli_list"
  /\ llock = None
  /\ IF inList
     THEN llock' = t /\ Set(t, [r EXCEPT !.pc = "cli_lockp"])
     ELSE UNCHANGED llock /\ Set(t, [r EXCEPT !.pc = "ret", !.arg = "nochannels"])
  /\ UNCHANGED <<pairVars, inList, others, envVars, plock, destroyed, uaf, chanVars,
                 pbx, obs, seqno, nops>>

\* ast_mutex_lock(&p->lock) under the list lock; the line of the pair is
\* printed, the pair unlocked, and the list unlocked at the end
ShowPair(t) ==
  LET r == thr[t] IN
  /\ r.pc = "cli_lockp"
  /\ plock = None
  /\ llock' = None
  /\ uaf' = (uaf \/ Freed)
  /\ Set(t, [r EXCEPT !.pc = "ret",
                      !.arg = IF owner # Null THEN owner ELSE "<unowned>"])
  /\ UNCHANGED <<pairVars, inList, others, envVars, plock, destroyed, chanVars, pbx,
                 obs, seqno, nops>>

(***************************************************************************)
(* local_answer and local_fixup.                                           *)
(***************************************************************************)
AnswerFrame(t, n) == [type |-> "CONTROL", sub |-> "ANSWER", by |-> t, n |-> n]

\* ast_answer on endpoint c, whose lock the switch holds; local_answer reads
\* ast->tech_pvt
BeginAnswer(t, c) ==
  /\ thr[t].pc = "idle"
  /\ nops < MaxOps
  /\ exists[c]
  /\ clock[c] = None
  /\ clock' = [clock EXCEPT ![c] = t]
  /\ nops' = nops + 1
  /\ seqno' = [seqno EXCEPT ![t] = @ + 1]
  /\ LET r == [Idle EXCEPT !.kind = "answer", !.ast = c, !.us = c, !.uslk = TRUE,
                           !.f = AnswerFrame(t, seqno[t] + 1)]
     IN  IF tech_pvt[c]
         THEN Set(t, [r EXCEPT !.pc = "lockp"])
         ELSE Set(t, [r EXCEPT !.pc = "ret", !.res = -1])
  /\ UNCHANGED <<pairVars, regVars, envVars, plock, destroyed, uaf, exists, tech_pvt,
                 readq, enqlog, generator, bridge, bridged, obridge, hungup, moh, ringing,
                 masq, pbx, obs>>

\* ast_mutex_lock(&p->lock).  On B the answer frame goes to local_queue_frame;
\* on A res stays -1 and the pair is not unlocked before the return
LockAnswer(t) ==
  LET r     == thr[t]
      io    == IS_OUTBOUND(r.ast)
      other == Other(io)
      r1    == [r EXCEPT !.isout = io, !.other = other]
  IN
  /\ r.pc = "lockp"
  /\ r.kind = "answer"
  /\ plock = None
  /\ uaf' = (uaf \/ Freed)
  /\ IF ~io
     THEN /\ plock' = t
          /\ Set(t, [r1 EXCEPT !.pc = "ret", !.res = -1])
          /\ UNCHANGED flags
     ELSE IF other = Null \/ (generator[r.ast] /\ generator[other])
     THEN /\ Set(t, [r1 EXCEPT !.pc = "ret", !.res = 0, !.fwd = TRUE])
          /\ UNCHANGED <<plock, flags>>
     ELSE /\ flags' = flags \cup {LOCAL_GLARE_DETECT}
          /\ Set(t, [r1 EXCEPT !.pc = "try", !.fwd = TRUE])
          /\ plock' = t
  /\ UNCHANGED <<alloc, owner, chan, exten, context, jb, jberr, umod, regVars,
                 envVars, destroyed, exists, tech_pvt, clock, readq, enqlog,
                 generator, bridge, bridged, obridge, hungup, moh, ringing, masq, pbx,
                 obs, seqno, nops>>

\* the channels a masquerade names as oldchan: the one that held c's place in
\* the pair, or a channel the pair does not know
FixupOld(c) == {c, "X"}

\* the masquerade calls local_fixup(oldchan, newchan) with newchan in c's
\* place and both channels locked; local_fixup reads newchan->tech_pvt
BeginFixup(t, c, old) ==
  /\ thr[t].pc = "idle"
  /\ nops < MaxOps
  /\ exists[c]
  /\ clock[c] = None
  /\ clock' = [clock EXCEPT ![c] = t]
  /\ nops' = nops + 1
  /\ LET r == [Idle EXCEPT !.kind = "fixup", !.ast = c, !.arg = old]
     IN  IF tech_pvt[c]
         THEN Set(t, [r EXCEPT !.pc = "fix_lock"])
         ELSE Set(t, [r EXCEPT !.pc = "ret", !.res = -1])
  /\ UNCHANGED <<pairVars, regVars, envVars, plock, destroyed, uaf, exists, tech_pvt,
                 readq, enqlog, generator, bridge, bridged, obridge, hungup, moh, ringing,
                 masq, pbx, obs, seqno>>

\* the pair is locked, the handle that named oldchan is made to name newchan,
\* the pair is unlocked; -1 when neither handle names oldchan
FixupSwap(t) ==
  LET r == thr[t] IN
  /\ r.pc = "fix_lock"
  /\ plock = None
  /\ uaf' = (uaf \/ Freed)
  /\ IF owner # r.arg /\ chan # r.arg
     THEN /\ Set(t, [r EXCEPT !.pc = "ret", !.res = -1])
          /\ UNCHANGED <<owner, chan>>
     ELSE /\ Set(t, [r EXCEPT !.pc = "ret", !.res = 0])
          /\ owner' = IF owner = r.arg THEN r.ast ELSE owner
          /\ chan' = IF owner = r.arg THEN chan ELSE r.ast
  /\ UNCHANGED <<alloc, flags, exten, context, jb, jberr, umod, regVars, envVars,
                 plock, destroyed, chanVars, pbx, obs, seqno, nops>>

(***************************************************************************)
(* The switch around the driver.                                           *)
(***************************************************************************)
Env == "env"

\* another thread of the switch takes a channel's lock
EnvLock(c) ==
  /\ clock[c] = None
  /\ clock' = [clock EXCEPT ![c] = Env]
  /\ UNCHANGED <<pairVars, regVars, envVars, plock, destroyed, uaf, exists, tech_pvt,
                 readq, enqlog, generator, bridge, bridged, obridge, hungup, moh, ringing,
                 masq, pbx, obs, thr, seqno, nops>>

EnvUnlock(c) ==
  /\ clock[c] = Env
  /\ clock' = [clock EXCEPT ![c] = None]
  /\ UNCHANGED <<pairVars, regVars, envVars, plock, destroyed, uaf, exists, tech_pvt,
                 readq, enqlog, generator, bridge, bridged, obridge, hungup, moh, ringing,
                 masq, pbx, obs, thr, seqno, nops>>

\* ast_read takes the frame at the head of an endpoint's read queue
Read(c) ==
  /\ readq[c] # <<>>
  /\ readq' = [readq EXCEPT ![c] = Tail(@)]
  /\ UNCHANGED <<pairVars, regVars, envVars, plock, destroyed, uaf, exists, tech_pvt,
                 clock, enqlog, generator, bridge, bridged, obridge, hungup, moh, ringing,
                 masq, pbx, obs, thr, seqno, nops>>

\* a soft hangup is requested on a channel
SoftHangup(c) ==
  /\ ~hungup[c]
  /\ hungup' = [hungup EXCEPT ![c] = TRUE]
  /\ UNCHANGED <<pairVars, regVars, envVars, plock, destroyed, uaf, exists, tech_pvt,
                 clock, readq, enqlog, generator, bridge, bridged, obridge, moh, ringing,
                 masq, pbx, obs, thr, seqno, nops>>

(***************************************************************************)
(* Initial states.                                                         *)
(***************************************************************************)
\* nothing allocated yet
InitCommon ==
  /\ plock = None
  /\ destroyed = 0
  /\ uaf = FALSE
  /\ llock = None
  /\ clock = [c \in Chans |-> None]
  /\ readq = [c \in Locals |-> <<>>]
  /\ enqlog = [c \in Locals |-> <<>>]
  /\ moh = [c \in Locals |-> FALSE]
  /\ ringing = [c \in Locals |-> FALSE]
  /\ masq = 0
  /\ obs = NoObs
  /\ thr = [t \in Threads |-> Idle]
  /\ seqno = [t \in Threads |-> 0]
  /\ nops = 0

InitNoPair ==
  /\ InitCommon
  /\ hungup = [c \in Chans |-> FALSE]
  /\ pbx = FALSE
  /\ alloc = FALSE
  /\ owner = Null
  /\ chan = Null
  /\ flags = {}
  /\ exten = <<>>
  /\ context = <<>>
  /\ jb = FALSE
  /\ jberr = FALSE
  /\ umod = [owner |-> 0, chan |-> 0]
  /\ inList = FALSE
  /\ exists = [c \in Locals |-> FALSE]
  /\ tech_pvt = [c \in Locals |-> FALSE]
  /\ generator = [c \in Locals |-> FALSE]
  /\ bridge = Null
  /\ bridged = Null
  /\ obridge = Null

\* the state local_request leaves when it succeeds on destination d
InitPair(d) ==
  LET a == local_alloc_parse(d) IN
  /\ InitCommon
  /\ pbx = FALSE
  /\ dest = d
  /\ alloc = TRUE
  /\ owner = "A"
  /\ chan = "B"
  /\ flags = a.flags
  /\ exten = a.exten
  /\ context = a.context
  /\ jb = a.jb
  /\ jberr = a.jberr
  /\ umod = [owner |-> 1, chan |-> 1]
  /\ inList = TRUE
  /\ exists = [c \in Locals |-> TRUE]
  /\ tech_pvt = [c \in Locals |-> TRUE]

\* B's bridge: none, a real peer one step away, or a peer that is a proxy
BridgeConfigs == {<<Null, Null>>, <<"Y", "Y">>, <<"Y", "Z">>}

E1 == <<"e">>

(***************************************************************************)
(* Spec: forwarding.  Two threads forward frames in both directions of a   *)
(* live pair and hang its endpoints up.                                    *)
(***************************************************************************)
\* the calls made on each endpoint: every forwarding operation is there, A
\* is written, told to hold and to ring, sent a text and a digit's beginning,
\* B is written and sent HTML and the digit's end
FwdCalls ==
  { <<"A", "write", "VOICE">>, <<"A", "indicate", "HOLD">>,
    <<"A", "indicate", "RINGING">>, <<"A", "sendtext", None>>,
    <<"A", "digit_begin", None>>,
    <<"B", "write", "VOICE">>, <<"B", "sendhtml", None>>,
    <<"B", "digit_end", None>> }

Init ==
  /\ \E d \in {<<"e", "@", "e">>, <<"e", "@", "e", "/", "m">>} : InitPair(d)
  /\ hungup = [c \in Chans |-> FALSE]
  /\ others = {}
  /\ dialplan = {<<E1, E1>>}
  /\ generator \in {[c \in Locals |-> FALSE], [c \in Locals |-> TRUE]}
  /\ \E b \in {<<Null, Null>>, <<"Y", "Y">>} : bridge = b[1] /\ bridged = b[2]
  /\ obridge = Null

QueueSteps(t) ==
  \/ QueueBackoff(t)
  \/ QueueRelockUs(t)
  \/ QueueRelock(t)
  \/ QueueCancel(t)
  \/ QueueDestroy(t)
  \/ QueueDeliver(t)

HangupSteps(t) ==
  \/ LockHangup(t)
  \/ HangupBackoff(t)
  \/ HangupRelockChan(t)
  \/ HangupRelock(t)
  \/ HangupDetach(t)
  \/ HangupRemove(t)
  \/ HangupOther(t)

Next ==
  \E t \in Threads :
    \/ \E c \in FwdCalls : BeginFwd(t, c[1], c[2], c[3])
    \/ LockFwd(t)
    \/ QueueSteps(t)
    \/ BeginHangup(t, "A", FALSE)
    \/ HangupSteps(t)
    \/ Return(t)

Spec == Init /\ [][Next]_vars

(***************************************************************************)
(* SpecHangup: the end of a pair's life.  The pair is live, with or        *)
(* without a PBX started on B by local_call; two threads forward frames on *)
(* A and hang the endpoints up.                                            *)
(***************************************************************************)
InitHangup ==
  /\ InitCommon
  /\ hungup = [c \in Chans |-> FALSE]
  /\ dest = <<"e", "@", "e">>
  /\ alloc = TRUE
  /\ owner = "A"
  /\ chan = "B"
  /\ pbx \in BOOLEAN
  /\ flags = IF pbx THEN {LOCAL_LAUNCHED_PBX} ELSE {}
  /\ exten = E1
  /\ context = E1
  /\ jb = FALSE
  /\ jberr = FALSE
  /\ umod = [owner |-> 1, chan |-> 1]
  /\ inList = TRUE
  /\ exists = [c \in Locals |-> TRUE]
  /\ tech_pvt = [c \in Locals |-> TRUE]
  /\ others = {}
  /\ dialplan = {<<E1, E1>>}
  /\ generator \in {[c \in Locals |-> FALSE], [c \in Locals |-> TRUE]}
  /\ bridge = Null
  /\ bridged = Null
  /\ obridge = Null

ThreadHangup(t) ==
  \/ BeginFwd(t, "A", "sendtext", None)
  \/ BeginFwd(t, "A", "write", "VOICE")
  \/ LockFwd(t)
  \/ QueueSteps(t)
  \/ BeginHangup(t, "A", FALSE)
  \/ \E st \in BOOLEAN : BeginHangup(t, "B", st)
  \/ HangupSteps(t)
  \/ Return(t)

NextHangup == \E t \in Threads : ThreadHangup(t)

\* every thread that can take a step takes one in the end: the locks are
\* granted fairly and the back-off loops retry
SpecHangup ==
  /\ InitHangup
  /\ [][NextHangup]_vars
  /\ \A t \in Threads : SF_vars(ThreadHangup(t))

(***************************************************************************)
(* SpecOptimize: optimizing the pair away.  B is bridged or not, the pair  *)
(* was requested with or without option n.  Thread t1 is the thread that   *)
(* runs B: it writes frames and sends text on B.  Thread t2 does what      *)
(* comes from A's side: it writes on A, runs LocalOptimizeAway and hangs A *)
(* up.  Meanwhile the switch reads A's queue and locks B's bridge peer.    *)
(***************************************************************************)
\* B's bridge, its resolved bridge peer, and the channels a soft hangup was
\* requested on
OptimizeConfigs ==
  { <<Null, Null, {}>>, <<"Y", "Z", {}>>, <<"Y", "Y", {}>>,
    <<"Y", "Y", {"Y"}>>, <<"Y", "Y", {"A"}>> }

InitOptimize ==
  /\ \E d \in {<<"e", "@", "e">>, <<"e", "@", "e", "/", "n">>} : InitPair(d)
  /\ others = {}
  /\ dialplan = {<<E1, E1>>}
  /\ generator = [c \in Locals |-> FALSE]
  /\ \E b \in OptimizeConfigs :
       /\ bridge = b[1]
       /\ bridged = b[2]
       /\ hungup = [c \in Chans |-> c \in b[3]]
  /\ obridge = Null

ManagerSteps(t) ==
  \/ ManagerList(t)
  \/ ManagerClear(t)

NextOptimize ==
  \/ \E a \in WriteTypes : BeginFwd("t1", "B", "write", a)
  \/ BeginFwd("t1", "B", "sendtext", None)
  \/ BeginFwd("t2", "A", "write", "VOICE")
  \/ \E h \in Headers : BeginManager("t2", h)
  \/ BeginHangup("t2", "A", FALSE)
  \/ \E t \in Threads :
       \/ LockFwd(t)
       \/ QueueSteps(t)
       \/ ManagerSteps(t)
       \/ HangupSteps(t)
       \/ Return(t)
  \/ EnvLock("Y")
  \/ EnvUnlock("Y")
  \/ Read("A")

SpecOptimize == InitOptimize /\ [][NextOptimize]_vars

(***************************************************************************)
(* SpecParse: local_request on every short destination string and on some  *)
(* that are too long for the exten[] buffer.                               *)
(***************************************************************************)
InitParse ==
  /\ InitNoPair
  /\ dest \in Strings \cup LongStrings
  /\ others = {}
  /\ dialplan = {<<E1, E1>>}

NextParse ==
  \/ RequestAlloc("t1")
  \/ RequestNoChannel("t1")
  \/ RequestOk("t1")
  \/ RequestCcFail("t1")
  \/ Return("t1")

SpecParse == InitParse /\ [][NextParse]_vars

(***************************************************************************)
(* SpecDevice: the device state of live and dying pairs.  The list holds   *)
(* the pair and possibly another one; the endpoints are hung up while the  *)
(* device state of several destinations is asked for.                      *)
(***************************************************************************)
\* another pair of the list, with or without its A endpoint
OtherPairs ==
  { {}, {[exten |-> E1, context |-> E1, owned |-> TRUE]},
        {[exten |-> E1, context |-> E1, owned |-> FALSE]} }

InitDevice ==
  /\ \E d \in {<<"e", "@", "e">>, <<"e", "@", "b", "/", "n">>, <<"b">>} : InitPair(d)
  /\ hungup = [c \in Chans |-> FALSE]
  /\ others \in OtherPairs
  /\ dialplan \in {{<<E1, E1>>, <<<<"b">>, E1>>}, {<<E1, <<"b">>>>}}
  /\ generator = [c \in Locals |-> FALSE]
  /\ bridge = Null
  /\ bridged = Null
  /\ obridge = Null

NextDevice ==
  \/ \E t \in Threads :
       \/ BeginHangup(t, "A", FALSE)
       \/ LockHangup(t)
       \/ HangupDetach(t)
       \/ HangupRemove(t)
       \/ HangupOther(t)
       \/ Return(t)
  \/ \E data \in DevStrings : Devicestate(data)
  \/ ObsClear

SpecDevice == InitDevice /\ [][NextDevice]_vars

(***************************************************************************)
(* SpecRegistry: the list locals over a pair's whole life.  A pair is      *)
(* requested, with or without options; a text is sent on A, a frame is     *)
(* written on B, A is hung up (which hangs B up, no PBX running on it),    *)
(* and meanwhile LocalOptimizeAway and "local show channels" go through    *)
(* the list.                                                               *)
(***************************************************************************)
InitRegistry ==
  /\ InitNoPair
  /\ dest \in {<<"e", "@", "e">>, <<"e", "@", "e", "/", "n", "b", "m", "j">>}
  /\ others = {}
  /\ dialplan = {<<E1, E1>>}

ShowSteps(t) ==
  \/ ShowList(t)
  \/ ShowPair(t)

NextRegistry ==
  \/ RequestAlloc("t1")
  \/ RequestNoChannel("t1")
  \/ RequestOk("t1")
  \/ RequestCcFail("t1")
  \/ \E t \in Threads :
       \/ BeginFwd(t, "A", "sendtext", None)
       \/ BeginFwd(t, "B", "write", "VOICE")
       \/ LockFwd(t)
       \/ QueueSteps(t)
       \/ BeginHangup(t, "A", FALSE)
       \/ HangupSteps(t)
       \/ \E h \in Headers : BeginManager(t, h)
       \/ ManagerSteps(t)
       \/ BeginShow(t)
       \/ ShowSteps(t)
       \/ Return(t)

SpecRegistry == InitRegistry /\ [][NextRegistry]_vars

(***************************************************************************)
(* SpecQuery: option queries through a pair.  A is bridged to X or not, B  *)
(* to Y or not, and a PBX runs on B.  Thread t1 queries options on the     *)
(* endpoints, thread t2 hangs them up, the switch locks X and Y.  The      *)
(* switch hangs an endpoint up once, and not while it runs a query on it.  *)
(***************************************************************************)
\* A's bridge, B's bridge and B's bridged channel
QueryConfigs ==
  { <<Null, Null, Null>>, <<"X", "Y", "Y">>, <<Null, "Y", "Y">>, <<"X", Null, Null>> }

\* a pair requested with destination d, its PBX started by local_call
InitLaunched(d) ==
  /\ InitCommon
  /\ hungup = [c \in Chans |-> FALSE]
  /\ dest = d
  /\ alloc = TRUE
  /\ owner = "A"
  /\ chan = "B"
  /\ pbx = TRUE
  /\ flags = local_alloc_parse(d).flags \cup {LOCAL_LAUNCHED_PBX}
  /\ exten = E1
  /\ context = E1
  /\ jb = FALSE
  /\ jberr = FALSE
  /\ umod = [owner |-> 1, chan |-> 1]
  /\ inList = TRUE
  /\ exists = [c \in Locals |-> TRUE]
  /\ tech_pvt = [c \in Locals |-> TRUE]
  /\ others = {}
  /\ dialplan = {<<E1, E1>>}
  /\ generator = [c \in Locals |-> FALSE]
  /\ \E b \in QueryConfigs : obridge = b[1] /\ bridge = b[2] /\ bridged = b[3]

InitQuery == InitLaunched(<<"e", "@", "e">>)

\* a hangup of endpoint c is under way
HangupRuns(c) ==
  \E u \in Threads :
    thr[u].kind = "hangup" /\ thr[u].ast = c /\ thr[u].pc \notin {"idle", "ret"}

\* a query on endpoint c is under way
QueryRuns(c) ==
  \E u \in Threads :
    thr[u].kind = "query" /\ thr[u].ast = c /\ thr[u].pc \notin {"idle", "ret"}

QuerySteps(t) ==
  \/ QueryLock(t)
  \/ QueryNoChan(t)
  \/ QueryBackoff(t)
  \/ QueryLockChan(t)
  \/ QueryNoBridge(t)
  \/ QueryPeerBackoff(t)
  \/ QueryLockPeer(t)
  \/ \E ans \in {0, -1} : QueryAsk(t, ans)

\* local_hangup with a PBX on B: B is not hung up from A's hangup
LaunchedHangupSteps(t) ==
  \/ LockHangup(t)
  \/ HangupBackoff(t)
  \/ HangupRelockChan(t)
  \/ HangupRelock(t)
  \/ HangupDetach(t)
  \/ HangupRemove(t)
  \/ QueueBackoff(t)
  \/ QueueRelock(t)
  \/ QueueCancel(t)
  \/ QueueDestroy(t)
  \/ QueueDeliver(t)

\* the switch hangs endpoint c up
HangupOnce(t, c) ==
  /\ ~HangupRuns(c)
  /\ ~QueryRuns(c)
  /\ BeginHangup(t, c, FALSE)

ThreadQuery(t) ==
  \/ /\ t = "t1"
     /\ \E c \in Locals : \E opt \in QueryOptions : ~HangupRuns(c) /\ BeginQuery(t, c, opt)
  \/ QuerySteps(t)
  \/ t = "t2" /\ \E c \in Locals : HangupOnce(t, c)
  \/ LockHangup(t)
  \/ HangupDetach(t)
  \/ HangupRemove(t)
  \/ QueueDeliver(t)
  \/ Return(t)

NextQuery ==
  \/ \E t \in Threads : ThreadQuery(t)
  \/ \E c \in {"X", "Y"} : EnvLock(c)
  \/ \E c \in {"X", "Y"} : EnvUnlock(c)

\* every thread that can take a step takes one in the end, and the switch
\* gives back the channel locks it takes
SpecQuery ==
  /\ InitQuery
  /\ [][NextQuery]_vars
  /\ \A t \in Threads : SF_vars(ThreadQuery(t))
  /\ \A c \in {"X", "Y"} : WF_vars(EnvUnlock(c))

(***************************************************************************)
(* SpecBridged: who an endpoint is bridged to.  The pair was requested     *)
(* with or without option b; the endpoints are hung up, each once, while   *)
(* the switch asks for their bridged channels.                             *)
(***************************************************************************)
InitBridged ==
  \E d \in {<<"e", "@", "e">>, <<"e", "@", "e", "/", "b">>} : InitLaunched(d)

NextBridged ==
  \/ \E t \in Threads :
       \/ \E c \in Locals : HangupOnce(t, c)
       \/ LaunchedHangupSteps(t)
       \/ Return(t)
  \/ \E b \in Locals : Bridgedchannel(b)
  \/ ObsClear

SpecBridged == InitBridged /\ [][NextBridged]_vars

(***************************************************************************)
(* SpecIndicate: hold and unhold.  The pair was requested with or without  *)
(* option m, its endpoints have generators or not; two threads indicate    *)
(* HOLD and UNHOLD on both endpoints and hang A up.                        *)
(***************************************************************************)
InitIndicate ==
  /\ \E d \in {<<"e", "@", "e">>, <<"e", "@", "e", "/", "m">>} : InitPair(d)
  /\ hungup = [c \in Chans |-> FALSE]
  /\ others = {}
  /\ dialplan = {<<E1, E1>>}
  /\ generator \in {[c \in Locals |-> FALSE], [c \in Locals |-> TRUE]}
  /\ bridge = Null
  /\ bridged = Null
  /\ obridge = Null

NextIndicate ==
  \E t \in Threads :
    \/ \E c \in Locals : \E a \in {"HOLD", "UNHOLD"} : BeginFwd(t, c, "indicate", a)
    \/ LockFwd(t)
    \/ QueueBackoff(t)
    \/ QueueRelockUs(t)
    \/ QueueCancel(t)
    \/ QueueDestroy(t)
    \/ QueueDeliver(t)
    \/ BeginHangup(t, "A", FALSE)
    \/ HangupSteps(t)
    \/ Return(t)

SpecIndicate == InitIndicate /\ [][NextIndicate]_vars

(***************************************************************************)
(* SpecCall: the owner of A dials it and later hangs it up, on a pair with *)
(* no PBX yet whose extension is in the dialplan or not.  Meanwhile text   *)
(* is sent to A and, once the PBX runs on B, B writes voice and is hung    *)
(* up.                                                                     *)
(***************************************************************************)
InitCall ==
  /\ InitCommon
  /\ hungup = [c \in Chans |-> FALSE]
  /\ dest = <<"e", "@", "e">>
  /\ alloc = TRUE
  /\ owner = "A"
  /\ chan = "B"
  /\ pbx = FALSE
  /\ flags = {}
  /\ exten = E1
  /\ context = E1
  /\ jb = FALSE
  /\ jberr = FALSE
  /\ umod = [owner |-> 1, chan |-> 1]
  /\ inList = TRUE
  /\ exists = [c \in Locals |-> TRUE]
  /\ tech_pvt = [c \in Locals |-> TRUE]
  /\ others = {}
  /\ dialplan \in {{}, {<<E1, E1>>}}
  /\ generator = [c \in Locals |-> FALSE]
  /\ bridge = Null
  /\ bridged = Null
  /\ obridge = Null

CallSteps(t) ==
  \/ CallLockChan(t)
  \/ CallBackoff(t)
  \/ CallLockPair(t)
  \/ CallBackoffPair(t)
  \/ CallRelock(t)
  \/ \E started \in BOOLEAN : CallStart(t, started)

NextCall ==
  \/ BeginCall("t1")
  \/ CallSteps("t1")
  \/ BeginHangup("t1", "A", FALSE)
  \/ BeginFwd("t2", "A", "sendtext", None)
  \/ BeginFwd("t2", "B", "write", "VOICE")
  \/ \E st \in BOOLEAN : BeginHangup("t2", "B", st)
  \/ \E t \in Threads :
       \/ LockFwd(t)
       \/ QueueSteps(t)
       \/ HangupSteps(t)
       \/ Return(t)

SpecCall == InitCall /\ [][NextCall]_vars

(***************************************************************************)
(* SpecDance: the lock dance of two forwarders.  The PBX runs on B; one    *)
(* thread writes voice on A, whose lock it holds, the other writes voice   *)
(* on B, whose lock it holds.  The back-off of local_queue_frame is taken  *)
(* statement by statement.  Every statement a thread can execute again and *)
(* again is executed in the end.                                           *)
(***************************************************************************)
InitDance ==
  /\ InitHangup
  /\ pbx
  /\ generator = [c \in Locals |-> FALSE]

DanceSteps(t) ==
  \/ LockFwd(t)
  \/ QueueBackoff(t)
  \/ QueueLockUs(t)
  \/ QueueTrylockPair(t)
  \/ QueueDeliver(t)
  \/ Return(t)

NextDance ==
  \/ BeginFwd("t1", "A", "write", "VOICE")
  \/ BeginFwd("t2", "B", "write", "VOICE")
  \/ \E t \in Threads : DanceSteps(t)

SpecDance ==
  /\ InitDance
  /\ [][NextDance]_vars
  /\ \A t \in Threads :
       /\ SF_vars(LockFwd(t))
       /\ SF_vars(QueueBackoff(t))
       /\ SF_vars(QueueLockUs(t))
       /\ SF_vars(QueueTrylockPair(t))
       /\ SF_vars(QueueDeliver(t))
       /\ SF_vars(Return(t))

(***************************************************************************)
(* SpecAnswer: answering.  The pair is live, with or without a PBX on B;   *)
(* two threads answer both endpoints, send text and write on A, run the    *)
(* fixup of a masquerade and hang the endpoints up.                        *)
(***************************************************************************)
ThreadAnswer(t) ==
  \/ \E c \in Locals : BeginAnswer(t, c)
  \/ LockAnswer(t)
  \/ \E c \in Locals : \E old \in FixupOld(c) : BeginFixup(t, c, old)
  \/ FixupSwap(t)
  \/ BeginFwd(t, "A", "sendtext", None)
  \/ BeginFwd(t, "A", "write", "VOICE")
  \/ LockFwd(t)
  \/ QueueSteps(t)
  \/ BeginHangup(t, "A", FALSE)
  \/ \E st \in BOOLEAN : BeginHangup(t, "B", st)
  \/ HangupSteps(t)
  \/ Return(t)

NextAnswer == \E t \in Threads : ThreadAnswer(t)

SpecAnswer == InitHangup /\ [][NextAnswer]_vars

(***************************************************************************)
(* Properties.                                                             *)
(***************************************************************************)
Count(q, f) == Cardinality({i \in 1..Len(q) : q[i] = f})

Partner(c) == IF c = "A" THEN "B" ELSE "A"

BothGenerators(c) == generator[c] /\ generator[Partner(c)]

\* thread t is returning from a forwarding operation that took the pair's lock
\* with both handles set and LOCAL_ALREADY_MASQED clear, and no hangup has
\* detached an endpoint since
ForwardedOnLivePair(t) ==
  /\ thr[t].pc = "ret"
  /\ thr[t].kind \in FwdKinds
  /\ thr[t].pre
  /\ owner # Null
  /\ chan # Null

DeliveredOnce(t) ==
  /\ Count(enqlog[Partner(thr[t].ast)], thr[t].f)
       = (IF BothGenerators(thr[t].ast) THEN 0 ELSE 1)
  /\ Count(enqlog[thr[t].ast], thr[t].f) = 0

\* C1 as stated: every frame submitted through write/indicate/digit/text/html
\* on an endpoint of a pair with both handles set and ALREADY_MASQED clear, no
\* hangup interleaved, is queued exactly once on the partner (zero times only
\* when both endpoints have a generator) and never on the endpoint's own queue.
C1_EveryFrameOnce ==
  \A t \in Threads : ForwardedOnLivePair(t) => DeliveredOnce(t)

\* C1 amended: the same for every frame the operation hands to
\* local_queue_frame; a voice/video write on B whose optimize-away attempt
\* makes the splice hands it nothing, and its frame is dropped.
C1_ForwardedFrameOnce ==
  \A t \in Threads : (ForwardedOnLivePair(t) /\ thr[t].fwd) => DeliveredOnce(t)

\* a frame was handed over, without generators, and is on the partner's queue
\* once
C1_Witness ==
  \E t \in Threads :
    /\ ForwardedOnLivePair(t)
    /\ thr[t].fwd
    /\ ~BothGenerators(thr[t].ast)
    /\ Count(enqlog[Partner(thr[t].ast)], thr[t].f) = 1
    /\ thr[t].f.n = 2

\* C2: the frames one thread submitted on one endpoint are on the partner's
\* read queue in the order of their submission, whatever other threads
\* forward meanwhile.
C2_SubmissionOrder ==
  \A c \in Locals : \A i, j \in 1..Len(readq[c]) :
    ( /\ i < j
      /\ readq[c][i].by = readq[c][j].by
      /\ readq[c][i].sub # "HANGUP"
      /\ readq[c][j].sub # "HANGUP" )
    => readq[c][i].n < readq[c][j].n

\* two frames of one thread with a frame of the other thread between them
C2_Witness ==
  \E c \in Locals :
    /\ Len(readq[c]) = 3
    /\ readq[c][1].by = readq[c][3].by
    /\ readq[c][2].by # readq[c][1].by
    /\ readq[c][1].n < readq[c][3].n

BothHungUp == owner = Null /\ chan = Null

AllReturned == \A t \in Threads : thr[t].pc = "idle"

\* C3: local_pvt_destroy runs on the pair exactly once: never twice, never
\* before both endpoints were hung up, and not zero times once both endpoints
\* are hung up and every operation has returned.
C3_DestroyedExactlyOnce ==
  /\ destroyed <= 1
  /\ destroyed > 0 => BothHungUp
  /\ (BothHungUp /\ AllReturned) => destroyed = 1

\* the thread's sendtext on A is about to return while the other thread's
\* hangup of B is under way, and A has not been hung up
TextRacesHangup(t1, t2) ==
  /\ thr[t1].kind = "sendtext" /\ thr[t1].ast = "A" /\ thr[t1].pc = "ret"
  /\ thr[t2].kind = "hangup" /\ thr[t2].outer = "B" /\ thr[t2].pc # "idle"
  /\ tech_pvt["A"]
  /\ owner = "A"

Enqueued(t) == Count(enqlog[Partner(thr[t].ast)], thr[t].f)

\* C4 as stated (no generators attached): the sendtext ends with its frame
\* queued on B and success, or with failure after local_queue_frame saw
\* LOCAL_CANCEL_QUEUE; the pair is destroyed at most once.
C4_DeliveredOrCancelled ==
  \A t1, t2 \in Threads :
    (TextRacesHangup(t1, t2) /\ ~BothGenerators("A")) =>
      /\ \/ thr[t1].res = 0 /\ Enqueued(t1) = 1
         \/ thr[t1].res = -1 /\ Enqueued(t1) = 0
      /\ destroyed <= 1

\* the outcomes the code has: success either way, the frame on B's queue once
\* if B was still attached (and the endpoints did not both have a generator),
\* nowhere if the hangup detached B first; the pair is not destroyed as long
\* as A is not hung up
RaceOutcomes ==
  \A t1, t2 \in Threads :
    TextRacesHangup(t1, t2) =>
      /\ thr[t1].res = 0
      /\ Enqueued(t1) <= 1
      /\ Enqueued(t1) = 1 => (thr[t1].other = "B" /\ ~BothGenerators("A"))
      /\ (thr[t1].other = Null) => Enqueued(t1) = 0
      /\ Count(enqlog["A"], thr[t1].f) = 0
      /\ destroyed = 0

InFlight(t) == thr[t].pc # "idle"

\* a sendtext on A and a hangup of B are under way together
Racing(t1, t2) ==
  /\ thr[t1].kind = "sendtext" /\ thr[t1].ast = "A" /\ InFlight(t1)
  /\ thr[t2].kind = "hangup" /\ thr[t2].outer = "B" /\ InFlight(t2)

\* a hangup of A has been called
HangingUpA == \E t \in Threads : thr[t].kind = "hangup" /\ thr[t].outer = "A"

\* C4 amended: every interleaving of the sendtext on A with the hangup of B
\* ends in one of the outcomes above, and both calls return (as long as no
\* hangup of A joins them).
C4_RaceOutcomes ==
  /\ []RaceOutcomes
  /\ \A t1, t2 \in Threads : Racing(t1, t2) ~> ~InFlight(t1)
  /\ \A t1, t2 \in Threads : Racing(t1, t2) ~> (~InFlight(t2) \/ HangingUpA)

\* the hangup of B won: the sendtext found B detached and returns success
\* with nothing queued
C4_Witness ==
  \E t1, t2 \in Threads :
    /\ TextRacesHangup(t1, t2)
    /\ thr[t1].other = Null
    /\ thr[t1].res = 0
    /\ Enqueued(t1) = 0

\* the endpoint has been hung up: the pair no longer names it
AlreadyHungUp(c) == alloc /\ exists[c] /\ (IF c = "A" THEN owner ELSE chan) # c

\* thread t takes a step of a hangup called on an endpoint that was hung up
\* before the call
SecondHangupStep(t) ==
  \/ /\ thr[t].pc = "idle"
     /\ thr'[t].kind = "hangup"
     /\ AlreadyHungUp(thr'[t].ast)
  \/ /\ thr[t].kind = "hangup"
     /\ thr[t].pc = "ret"
     /\ thr[t].res = -1
     /\ thr'[t] # thr[t]

\* C10: a hangup called on an endpoint that was already hung up returns at
\* once and changes nothing: handles, flags, registry membership, read
\* queues and destruction count stay as they were.
C10_SecondHangupNoOp ==
  [][\A t \in Threads :
       SecondHangupStep(t) =>
         /\ thr'[t].pc \in {"ret", "idle"}
         /\ UNCHANGED <<owner, chan, flags, inList, others, readq, enqlog,
                        destroyed, tech_pvt, hungup, umod>>]_vars

\* a second hangup of A is returning -1
C10_Witness ==
  \E t \in Threads :
    /\ thr[t].kind = "hangup"
    /\ thr[t].outer = "A"
    /\ thr[t].pc = "ret"
    /\ thr[t].res = -1
    /\ owner = Null

Masqed == LOCAL_ALREADY_MASQED \in flags

\* thread t takes the step of local_write that locks the pair and decides
\* what to do with the frame
WriteLocks(t) ==
  /\ thr[t].kind = "write"
  /\ thr[t].pc = "lockp"
  /\ thr'[t] # thr[t]

\* C5 as stated: once LOCAL_ALREADY_MASQED is set, every write called on
\* either endpoint goes on to return success.
C5_LaterWritesSucceed ==
  [][\A t \in Threads :
       (thr[t].pc = "idle" /\ thr'[t].kind = "write" /\ Masqed)
         => thr'[t].res = 0]_vars

\* C5 amended: LOCAL_ALREADY_MASQED is never cleared, and a write that finds
\* its endpoint still bound to the pair and locks the pair with the flag set
\* returns 0 and queues nothing.
C5_MasqedWritesDropped ==
  [][/\ Masqed => Masqed'
     /\ \A t \in Threads :
          (WriteLocks(t) /\ Masqed /\ ~Freed)
            => /\ thr'[t].pc = "ret"
               /\ thr'[t].res = 0
               /\ UNCHANGED <<readq, enqlog>>]_vars

\* a write on A called after the splice is returning 0 with nothing queued
C5_Witness ==
  \E t \in Threads :
    /\ thr[t].kind = "write" /\ thr[t].ast = "A"
    /\ thr[t].pc = "ret" /\ thr[t].res = 0
    /\ ~thr[t].pre
    /\ owner = "A" /\ chan = "B"
    /\ Masqed
    /\ Count(enqlog["B"], thr[t].f) = 0

\* the state check_bridge needs for the splice
SpliceState ==
  /\ LOCAL_ALREADY_MASQED \notin flags
  /\ LOCAL_NO_OPTIMIZATION \notin flags
  /\ owner # Null
  /\ chan # Null
  /\ bridge # Null
  /\ bridge = bridged
  /\ readq["A"] = <<>>
  /\ clock[bridge] = None
  /\ clock["A"] = None
  /\ ~hungup[bridge]
  /\ ~hungup["A"]

\* thread t takes the locking step of a voice or video write on B
MediaWriteOnB(t) ==
  /\ WriteLocks(t)
  /\ thr[t].ast = "B"
  /\ thr[t].f.type \in {"VOICE", "VIDEO"}

\* C6: the masquerade and the setting of LOCAL_ALREADY_MASQED come together,
\* only in a voice/video write on B, and only from a state where both flags
\* are clear, both handles set, B has a one-step bridge peer that is its
\* resolved peer, A's read queue is empty, the locks of the bridge peer and
\* of A are free for the trylocks and neither channel is hung up.
C6_SpliceOnlyWhenEligible ==
  [][(masq' # masq \/ (Masqed' /\ ~Masqed))
       => /\ masq' = masq + 1
          /\ Masqed' /\ ~Masqed
          /\ SpliceState
          /\ \E t \in Threads : MediaWriteOnB(t)]_vars

\* the splice was made
C6_Witness == masq = 1 /\ Masqed /\ readq["A"] = <<>>

\* the pair was requested with option n
CreatedWithN == LOCAL_NO_OPTIMIZATION \in local_alloc_parse(dest).flags

\* thread t takes the last step of a LocalOptimizeAway that found the pair
OptimizeAwayFound(t) ==
  /\ thr[t].kind = "manager"
  /\ thr[t].pc = "mgr_lockp"
  /\ thr'[t].pc = "ret"

\* C7: no step makes the splice while LOCAL_NO_OPTIMIZATION is set; a
\* LocalOptimizeAway that finds the pair clears the flag; and on a pair
\* requested with option n whose flag is clear, a voice/video write on B that
\* finds the rest of the splice state makes the splice.
C7_NoSpliceUntilOptimizeAway ==
  [][/\ LOCAL_NO_OPTIMIZATION \in flags => (masq' = masq /\ ~Masqed')
     /\ \A t \in Threads :
          OptimizeAwayFound(t) => LOCAL_NO_OPTIMIZATION \notin flags'
     /\ \A t \in Threads :
          (CreatedWithN /\ MediaWriteOnB(t) /\ SpliceState /\ ~Freed)
            => (masq' = masq + 1 /\ Masqed')]_vars

\* a pair requested with option n was spliced
C7_Witness == CreatedWithN /\ masq = 1 /\ Masqed

\* the option letters that give the flags back
OptLetters(fl, j) ==
  (IF LOCAL_NO_OPTIMIZATION \in fl THEN <<"n">> ELSE <<>>)
  \o (IF j THEN <<"j">> ELSE <<>>)
  \o (IF LOCAL_BRIDGE \in fl THEN <<"b">> ELSE <<>>)
  \o (IF LOCAL_MOH_PASSTHRU \in fl THEN <<"m">> ELSE <<>>)

\* the parsed pair written as EXT[/OPTS]@CTX
EmitOptsFirst ==
  LET o == OptLetters(flags, jb) IN
  exten \o (IF o # <<>> THEN <<"/">> \o o ELSE <<>>) \o <<"@">> \o context

\* the parsed pair written as EXT@CTX[/OPTS]
EmitContextFirst ==
  LET o == OptLetters(flags, jb) IN
  exten \o <<"@">> \o context \o (IF o # <<>> THEN <<"/">> \o o ELSE <<>>)

OptionFlags == {LOCAL_NO_OPTIMIZATION, LOCAL_BRIDGE, LOCAL_MOH_PASSTHRU}

\* local_alloc parses string e into the flags, extension and context of the pair
ParsesToPair(e) ==
  LET a == local_alloc_parse(e) IN
  /\ a.flags = flags \cap OptionFlags
  /\ a.jb = jb
  /\ a.exten = exten
  /\ a.context = context

\* C9 as stated: the pair local_alloc parsed from the destination, written
\* as EXT[/OPTS]@CTX and parsed again, gives the same flags, extension and
\* context.
C9_RoundTripOptsFirst == alloc => ParsesToPair(EmitOptsFirst)

\* C9 amended: written as EXT@CTX[/OPTS], and when that string fits the
\* exten[] buffer, it parses to the same flags, extension and context.
C9_RoundTripContextFirst ==
  (alloc /\ Len(EmitContextFirst) < AST_MAX_EXTENSION)
    => ParsesToPair(EmitContextFirst)

\* a pair with an option and a context of its own was parsed and its
\* channels made
C9_Witness ==
  /\ alloc
  /\ owner = "A"
  /\ LOCAL_NO_OPTIMIZATION \in flags
  /\ exten = E1
  /\ context = <<"b">>
  /\ ParsesToPair(EmitContextFirst)

\* the list has a pair of that extension and context whose A handle is set
PairInUse(e, c) ==
  \/ inList /\ exten = e /\ context = c /\ owner # Null
  \/ \E lp \in others : lp.exten = e /\ lp.context = c /\ lp.owned

\* the first '@' of data and the first '/' after it
AtOf(data) == StrChr(data, "@")
SlashOf(data) == StrChr(Tail0(data, AtOf(data)), "/")

\* what is before the '@', and what is after it up to the options
ExtOf(data) == Head0(data, AtOf(data))
CtxOf(data) ==
  IF SlashOf(data) = 0 THEN Tail0(data, AtOf(data))
  ELSE SubSeq(data, AtOf(data) + 1, AtOf(data) + SlashOf(data) - 1)

DeviceStateClaimed(data) ==
  IF AtOf(data) = 0 THEN "INVALID"
  ELSE IF <<CtxOf(data), ExtOf(data)>> \notin dialplan THEN "INVALID"
  ELSE IF PairInUse(ExtOf(data), CtxOf(data)) THEN "INUSE"
  ELSE "NOT_INUSE"

\* C8: local_devicestate answers INVALID without '@' or when the extension
\* is not in the dialplan, else INUSE exactly when the list has a pair of the
\* same extension and context with its A handle set, else NOT_INUSE; and it
\* changes neither the pair nor the list.
C8_DeviceState ==
  [][(obs.op = None /\ obs'.op = "devicestate")
       => /\ obs'.res = DeviceStateClaimed(obs'.data)
          /\ UNCHANGED <<pairVars, regVars, plock, destroyed, chanVars>>]_vars

\* NOT_INUSE was answered for the pair's own destination: the pair is in the
\* list with its A handle null
C8_Witness ==
  /\ obs.op = "devicestate"
  /\ obs.res = "NOT_INUSE"
  /\ inList
  /\ owner = Null
  /\ exten = ExtOf(obs.data)
  /\ context = CtxOf(obs.data)

\* the options local_alloc parses: what follows the first '/' of the
\* destination as copied into exten[]
ParsedOptions ==
  LET buf == ast_copy_string(dest, AST_MAX_EXTENSION)
      o   == StrChr(buf, "/")
  IN  IF o = 0 THEN <<>> ELSE Tail0(buf, o)

HasOption(ch) == \E i \in 1..Len(ParsedOptions) : ParsedOptions[i] = ch

\* C12: after local_alloc parsed the options, the jitter buffer is enabled
\* iff they contain both j and n, in either order; with j and no n it stays
\* disabled, the error is logged, and the pair is allocated with the flags of
\* the other option letters.
C12_JitterBufferNeedsN ==
  alloc =>
    /\ jb = (HasOption("j") /\ HasOption("n"))
    /\ jberr = (HasOption("j") /\ ~HasOption("n"))
    /\ (LOCAL_NO_OPTIMIZATION \in flags) = HasOption("n")
    /\ (LOCAL_BRIDGE \in flags) = HasOption("b")
    /\ (LOCAL_MOH_PASSTHRU \in flags) = HasOption("m")

\* j without n, with option b: allocated, in the list, the jitter buffer
\* disabled, the error logged and LOCAL_BRIDGE set
C12_Witness ==
  /\ alloc
  /\ thr["t1"].pc = "req_new"
  /\ inList
  /\ HasOption("j")
  /\ HasOption("b")
  /\ ~jb
  /\ jberr
  /\ LOCAL_BRIDGE \in flags

\* thread t is about to take the lock of the list locals
WantsList(t) == thr[t].pc \in {"h_list", "mgr_list", "cli_list"}

\* thread t holds the list lock and waits for the pair's mutex
HoldsListWantsPair(t) ==
  llock = t /\ thr[t].pc \in {"mgr_lockp", "cli_lockp"} /\ plock \notin {None, t}

\* thread t holds the pair's mutex and waits for the list lock
HoldsPairWantsList(t) ==
  plock = t /\ thr[t].pc = "h_list" /\ llock \notin {None, t}

\* C15: the list lock is taken before a pair's mutex and never while one is
\* held, so no thread holds the list lock waiting for the pair's mutex while
\* another holds that mutex waiting for the list lock.
C15_RegistryLockFirst ==
  /\ \A t \in Threads : WantsList(t) => plock # t
  /\ ~ \E t, u \in Threads : HoldsListWantsPair(t) /\ HoldsPairWantsList(u)

\* the two threads wait for each other
C15_Deadlock ==
  \E t, u \in Threads : HoldsListWantsPair(t) /\ HoldsPairWantsList(u)

\* C16: the list never holds a destroyed pair; a request that fails has
\* taken the pair out of the list before destroying it and returns null.
C16_NoDestroyedPairInList ==
  /\ inList => destroyed = 0
  /\ \A t \in Threads :
       (thr[t].kind = "request" /\ thr[t].pc = "ret" /\ thr[t].arg # "ok")
         => (thr[t].res = -1 /\ ~inList)

\* a request is between local_alloc's insertion and local_new's binding
Binding == \E t \in Threads : thr[t].pc = "req_new"

\* a hangup has detached the last endpoint and still holds the pair's mutex,
\* the pair not yet taken out of the list
Removing == \E t \in Threads : thr[t].pc = "h_list" /\ plock = t

HandleOrCancel ==
  owner # Null \/ chan # Null \/ LOCAL_CANCEL_QUEUE \in flags

OptionFlagsOf(fl) == fl \cap {LOCAL_BRIDGE, LOCAL_MOH_PASSTHRU}

\* thread t's LocalOptimizeAway found the pair of its channel in the list and
\* answers with the acknowledgement
ManagerAcks(t) ==
  /\ thr[t].kind = "manager"
  /\ thr[t].pc = "mgr_lockp"
  /\ thr[t].arg \in Locals
  /\ inList
  /\ thr'[t].pc = "ret"
  /\ thr'[t].status

\* thread t's LocalOptimizeAway answers with an error
ManagerFails(t) ==
  /\ thr[t].kind = "manager" \/ thr'[t].kind = "manager"
  /\ thr[t].pc # "ret"
  /\ thr'[t].pc = "ret"
  /\ ~thr'[t].status

\* C18: once the pair is allocated, LOCAL_BRIDGE, LOCAL_MOH_PASSTHRU and the
\* jitter buffer bit never change; LOCAL_NO_OPTIMIZATION is never set again
\* and is cleared only by a LocalOptimizeAway that found its channel's pair
\* in the list; a LocalOptimizeAway that answers with an error (no Channel
\* header, unknown channel, pair not in the list) changes no flag.
C18_OptionFlagsFixed ==
  [][ alloc =>
        /\ OptionFlagsOf(flags') = OptionFlagsOf(flags)
        /\ jb' = jb
        /\ (LOCAL_NO_OPTIMIZATION \in flags') => (LOCAL_NO_OPTIMIZATION \in flags)
        /\ (LOCAL_NO_OPTIMIZATION \in flags /\ LOCAL_NO_OPTIMIZATION \notin flags')
             => \E t \in Threads : ManagerAcks(t)
        /\ \A t \in Threads : ManagerFails(t) => flags' = flags
    ]_vars

\* LocalOptimizeAway has cleared LOCAL_NO_OPTIMIZATION of a pair requested
\* with n, b, m and j; the other options are as allocated
C18_Witness ==
  /\ \E t \in Threads : thr[t].kind = "manager" /\ thr[t].pc = "ret" /\ thr[t].status
  /\ HasOption("n")
  /\ LOCAL_NO_OPTIMIZATION \notin flags
  /\ LOCAL_BRIDGE \in flags
  /\ LOCAL_MOH_PASSTHRU \in flags
  /\ jb

\* thread t holds no lock
HoldsNothing(t) == plock # t /\ llock # t /\ \A c \in Chans : clock[c] # t

\* thread t's query returns in this step
QueryReturns(t) ==
  thr[t].kind = "query" /\ thr[t].pc \notin {"idle", "ret"} /\ thr'[t].pc = "ret"

\* the endpoint opposite to c in the pair
FarEndpoint(c) == IF c = chan THEN owner ELSE chan

\* C11: a T38_STATE query on a pair whose far endpoint is null or has no
\* bridged channel returns -1; every query returns holding none of the pair
\* mutex, the far endpoint's lock and the far bridge peer's lock; an
\* unsupported option returns -1 having locked nothing; and a query on a pair
\* whose far endpoint is null or not bridged does return.
C11_QueryReleasesAndReturns ==
  /\ [](\A t \in Threads :
          (thr[t].kind = "query" /\ thr[t].pc = "ret") => HoldsNothing(t))
  /\ [][\A t \in Threads :
          /\ ( /\ QueryReturns(t)
               /\ \/ FarEndpoint(thr[t].ast) = Null
                  \/ ast_bridged_channel(FarEndpoint(thr[t].ast)) = Null )
             => thr'[t].res = -1
          /\ (thr[t].pc = "idle" /\ thr'[t].kind = "query" /\ thr'[t].arg # "T38_STATE")
             => ( /\ thr'[t].pc = "ret"
                  /\ thr'[t].res = -1
                  /\ UNCHANGED <<plock, llock, clock>> )
     ]_vars
  /\ \A t \in Threads :
       ( /\ thr[t].kind = "query"
         /\ thr[t].pc \notin {"idle", "ret"}
         /\ \/ FarEndpoint(thr[t].ast) = Null
            \/ ast_bridged_channel(FarEndpoint(thr[t].ast)) = Null )
         ~> (thr[t].kind = "query" /\ thr[t].pc = "ret" /\ thr[t].res = -1)

\* a T38_STATE query on A found B locked, backed off, found B again with no
\* bridged channel and has returned -1
C11_Witness ==
  \E t \in Threads :
    /\ thr[t].kind = "query"
    /\ thr[t].arg = "T38_STATE"
    /\ thr[t].pc = "ret"
    /\ thr[t].res = -1
    /\ thr[t].other # Null
    /\ ast_bridged_channel(thr[t].other) = Null
    /\ HoldsNothing(t)

\* the switch's question about endpoint b is answered in this step
BridgedAnswer(b) == obs.op = None /\ obs'.op = "bridgedchannel" /\ obs'.data = <<b>>

\* C13 as stated: with LOCAL_BRIDGE clear the answer is bridge itself, with
\* LOCAL_BRIDGE set it is the bridge partner of the opposite endpoint.
C13_BridgePartnerOfOpposite ==
  [][\A b \in Locals :
       BridgedAnswer(b) =>
         obs'.res = IF LOCAL_BRIDGE \in flags
                    THEN BridgeOf(Partner(b))
                    ELSE b
    ]_vars

\* C13 amended: for an endpoint still attached to its pair, with LOCAL_BRIDGE
\* clear the answer is bridge itself; with LOCAL_BRIDGE set it is the bridge
\* partner of the opposite endpoint when that endpoint is attached and
\* bridged, the opposite endpoint itself when it is attached and not
\* bridged, and bridge itself when the opposite endpoint is detached.  For
\* an endpoint already hung up the answer is null.
C13_BridgePartnerOrFallback ==
  [][\A b \in Locals :
       BridgedAnswer(b) =>
         obs'.res =
           IF ~tech_pvt[b] THEN Null
           ELSE IF LOCAL_BRIDGE \notin flags THEN b
           ELSE IF FarEndpoint(b) = Null THEN b
           ELSE IF BridgeOf(Partner(b)) # Null THEN BridgeOf(Partner(b))
           ELSE Partner(b)
    ]_vars

\* option b, A bridged to X and B to Y: the question about A was answered Y
C13_Witness ==
  /\ LOCAL_BRIDGE \in flags
  /\ obridge = "X"
  /\ bridge = "Y"
  /\ owner = "A"
  /\ chan = "B"
  /\ obs.op = "bridgedchannel"
  /\ obs.data = <<"A">>
  /\ obs.res = "Y"

\* thread t begins indicate(c, HOLD or UNHOLD) on an endpoint attached to
\* its pair in this step
HoldBegins(t, c) ==
  /\ thr[t].pc = "idle"
  /\ thr'[t].kind = "indicate"
  /\ thr'[t].ast = c
  /\ thr'[t].arg \in {"HOLD", "UNHOLD"}
  /\ tech_pvt[c]

\* with LOCAL_MOH_PASSTHRU clear the indication starts or stops music on hold
\* on the endpoint and is over, nothing queued
HoldDoneLocally ==
  \A t \in Threads : \A c \in Locals :
    (HoldBegins(t, c) /\ LOCAL_MOH_PASSTHRU \notin flags)
      => /\ moh'[c] = (thr'[t].arg = "HOLD")
         /\ thr'[t].pc = "ret"
         /\ thr'[t].res = 0
         /\ enqlog' = enqlog

\* thread t returns from indicate(HOLD or UNHOLD) on a pair with
\* LOCAL_MOH_PASSTHRU set that had both handles when it was locked
HoldPassedThrough(t) ==
  /\ thr[t].pc = "ret"
  /\ thr[t].kind = "indicate"
  /\ thr[t].arg \in {"HOLD", "UNHOLD"}
  /\ LOCAL_MOH_PASSTHRU \in flags
  /\ thr[t].pre

\* C14 as stated: with LOCAL_MOH_PASSTHRU clear, HOLD/UNHOLD starts/stops music
\* on hold on the endpoint and queues nothing; with it set, no music on hold
\* is started and exactly one control frame with the condition is queued on
\* the partner.
C14_HoldLocalOrOneFrame ==
  /\ [][HoldDoneLocally]_vars
  /\ [][(LOCAL_MOH_PASSTHRU \in flags) => moh' = moh]_vars
  /\ [](\A t \in Threads :
          HoldPassedThrough(t)
            => /\ thr[t].f.type = "CONTROL"
               /\ thr[t].f.sub = thr[t].arg
               /\ Count(enqlog[Partner(thr[t].ast)], thr[t].f) = 1)

\* C14 amended: the same, the control frame being queued once on the partner
\* while both endpoints stay attached to the pair, and not at all when both
\* endpoints have a generator.
C14_HoldLocalOrForwarded ==
  /\ [][HoldDoneLocally]_vars
  /\ [][(LOCAL_MOH_PASSTHRU \in flags) => moh' = moh]_vars
  /\ [](\A t \in Threads :
          (HoldPassedThrough(t) /\ owner # Null /\ chan # Null)
            => /\ thr[t].f.type = "CONTROL"
               /\ thr[t].f.sub = thr[t].arg
               /\ DeliveredOnce(t))

\* HOLD indicated on A of a pair requested with m: one control HOLD frame on
\* B's queue, no music on hold on A
C14_Witness ==
  \E t \in Threads :
    /\ HoldPassedThrough(t)
    /\ thr[t].ast = "A"
    /\ thr[t].arg = "HOLD"
    /\ ~moh["A"]
    /\ Count(enqlog["B"], thr[t].f) = 1
    /\ thr[t].f.sub = "HOLD"

\* the thread is in the back-off of local_queue_frame: the pair is unlocked
\* and the frame is not queued yet
InBackoff(u) == thr[u].fwd /\ thr[u].pc \in {"sleep", "cda"}

\* the thread is in local_queue_frame, past the point where it set
\* LOCAL_GLARE_DETECT
InQueueFrame(u) == thr[u].fwd /\ thr[u].pc \in {"try", "sleep", "cda"}

\* the thread's local_hangup has just made both handles null
MadeBothNull(t) == thr[t].kind = "hangup" /\ thr[t].pc = "h_list"

\* the hangup that made both handles null saw glare exactly when a
\* local_queue_frame call is in flight, and then LOCAL_CANCEL_QUEUE is set
GlareSeen ==
  \A t \in Threads :
    MadeBothNull(t) =>
      /\ (\E u \in Threads : InBackoff(u)) => (thr[t].glare /\ LOCAL_CANCEL_QUEUE \in flags)
      /\ (~\E u \in Threads : InQueueFrame(u)) => ~thr[t].glare

\* the end of that hangup: with glare the pair is left alone, without glare it
\* leaves the list and is destroyed; 0 is returned
HangupEnds ==
  \A t \in Threads :
    (MadeBothNull(t) /\ thr'[t].pc = "ret") =>
      /\ thr'[t].res = 0
      /\ IF thr[t].glare
         THEN destroyed' = destroyed
         ELSE destroyed' = destroyed + 1 /\ ~inList'

\* the forwarder that finds LOCAL_CANCEL_QUEUE queues nothing, unlocks the
\* pair, destroys it and returns -1
ForwarderCancels ==
  \A u \in Threads :
    /\ ( /\ thr[u].pc = "try" /\ thr[u].kind \in FwdKinds
         /\ LOCAL_CANCEL_QUEUE \in flags /\ ~Freed
         /\ thr'[u].pc # "try" )
       => (thr'[u].pc = "destroy" /\ enqlog' = enqlog /\ plock' = None)
    /\ ( /\ thr[u].pc = "destroy" /\ thr[u].kind \in FwdKinds
         /\ thr'[u].pc # "destroy" )
       => (destroyed' = destroyed + 1 /\ thr'[u].res = -1 /\ enqlog' = enqlog)

\* C19: glare protocol.  The hangup that makes both handles null while a
\* local_queue_frame call is in its back-off sets LOCAL_CANCEL_QUEUE, does not
\* destroy the pair and returns 0, and the forwarder then queues nothing,
\* destroys the pair and returns -1; with no forwarder in flight the hangup
\* removes the pair from the list and destroys it itself.
C19_GlareProtocol ==
  /\ []GlareSeen
  /\ [][HangupEnds /\ ForwarderCancels]_vars

\* C20: no thread reads, writes, locks or unlocks the pair after
\* local_pvt_destroy has run on it.
C20_NoAccessAfterDestroy == ~uaf

\* C21: every entry point returns with the pair unlocked by the calling
\* thread, whatever it returns, as long as the pair still exists.
C21_ReturnsUnlocked ==
  \A t \in Threads : (thr[t].pc = "ret" /\ ~Freed) => plock # t

\* the thread's write on B is past check_bridge
PastCheckBridge(t) ==
  /\ thr[t].kind = "write"
  /\ thr[t].ast = "B"
  /\ thr[t].pc \in {"try", "cda", "sleep", "ret"}

\* C22: when check_bridge has returned, the writing thread holds neither the
\* lock of B's bridge peer nor the lock of A, whichever way check_bridge went.
C22_CheckBridgeReleases ==
  \A t \in Threads :
    PastCheckBridge(t) => (clock["Y"] # t /\ clock["A"] # t)

\* the thread is in local_queue_frame between the setting of
\* LOCAL_GLARE_DETECT and the return
GlareHeld(u) == thr[u].fwd /\ thr[u].pc \in {"try", "sleep", "cda", "destroy"}

\* C23: on a pair that exists, LOCAL_CANCEL_QUEUE is set only with
\* LOCAL_GLARE_DETECT, and LOCAL_GLARE_DETECT is set exactly while some
\* local_queue_frame call is between its setting of the flag and its return.
C23_GlareWhileForwarding ==
  ~Freed =>
    /\ LOCAL_CANCEL_QUEUE \in flags => LOCAL_GLARE_DETECT \in flags
    /\ LOCAL_GLARE_DETECT \in flags <=> \E u \in Threads : GlareHeld(u)

\* thread t takes the step of a forwarding operation other than write that
\* locks the pair, with a partner to forward to
OtherOpLocks(t) ==
  /\ thr[t].kind \in FwdKinds \ {"write"}
  /\ thr[t].pc = "lockp"
  /\ thr'[t] # thr[t]
  /\ Other(IS_OUTBOUND(thr[t].ast)) # Null
  /\ ~BothGenerators(thr[t].ast)

\* thread t leaves local_queue_frame with its frame accepted
FrameAccepted(t) ==
  /\ thr[t].pc = "try"
  /\ thr'[t].pc = "ret"
  /\ thr[t].other # Null

\* C24 as stated: while LOCAL_ALREADY_MASQED is set no frame is queued on
\* either endpoint.
C24_NoFrameWhileMasqed ==
  [][Masqed => enqlog' = enqlog]_vars

\* C24 amended: with LOCAL_ALREADY_MASQED set a write that locks the pair
\* queues nothing, while the other forwarding operations still go into
\* local_queue_frame and a frame accepted there is queued on the partner.
C24_OnlyWritesDropped ==
  [][\A t \in Threads :
       (Masqed /\ ~Freed) =>
         /\ WriteLocks(t) => (thr'[t].pc = "ret" /\ enqlog' = enqlog)
         /\ OtherOpLocks(t) => (thr'[t].pc = "try" /\ thr'[t].fwd)
         /\ FrameAccepted(t) =>
              enqlog'[thr[t].other] = Append(enqlog[thr[t].other], thr[t].f)]_vars

\* a text sent on B after the splice is on A's queue
C24_Witness ==
  \E t \in Threads :
    /\ Masqed /\ masq = 1
    /\ thr[t].kind = "sendtext" /\ thr[t].ast = "B"
    /\ thr[t].pc = "ret" /\ thr[t].res = 0
    /\ ~thr[t].pre
    /\ Count(enqlog["A"], thr[t].f) = 1

\* thread t's local_hangup leaves its lock loop and detaches its endpoint
HangupLeavesLoop(t) ==
  /\ thr[t].kind = "hangup"
  /\ thr[t].pc = "h_try"
  /\ thr'[t].pc \notin {"h_try", "h_sleep"}

\* thread t's local_hangup returns 0
HangupReturns(t) ==
  /\ thr[t].kind = "hangup"
  /\ thr[t].pc \notin {"ret", "idle"}
  /\ thr'[t].pc = "ret"
  /\ thr'[t].res = 0

\* A's hangup went through ast_hangup(B)
WentDirect(t) == thr[t].outer = "A" /\ thr[t].ast = "B" /\ thr[t].pc = "h_list"

\* the endpoint the hangup frame of thread t is for
Remaining(t) == IF thr[t].isout THEN "A" ELSE "B"

\* the way local_hangup takes once its endpoint is detached: B is hung up
\* directly, with the pair unlocked, when A is hung up with no PBX on B; the
\* hangup frame goes to local_queue_frame when A is hung up with a PBX on B or
\* B is hung up with A attached
HangupChoosesPath ==
  \A t \in Threads :
    HangupLeavesLoop(t) =>
      /\ (~thr[t].isout /\ chan # Null /\ LOCAL_LAUNCHED_PBX \notin flags)
           => (thr'[t].pc = "ohangup" /\ plock' = None)
      /\ ( \/ (~thr[t].isout /\ chan # Null /\ LOCAL_LAUNCHED_PBX \in flags)
           \/ (thr[t].isout /\ owner # Null) )
           => (thr'[t].pc = "try" /\ thr'[t].fwd /\ thr'[t].other = Remaining(t))

\* C25 as stated: a hangup of A that hung B up directly returns with both
\* handles null, the pair out of the list and destroyed once; a hangup that
\* forwards the hangup frame returns with that frame queued once on the
\* remaining endpoint and the pair alive.
C25_DirectOrForwarded ==
  [][/\ HangupChoosesPath
     /\ \A t \in Threads :
          HangupReturns(t) =>
            /\ WentDirect(t) =>
                 (owner' = Null /\ chan' = Null /\ ~inList' /\ destroyed' = 1)
            /\ thr[t].fwd =>
                 (Count(enqlog'[Remaining(t)], thr[t].f) = 1 /\ destroyed' = 0)]_vars

\* C25 amended: the direct hangup returns with both handles null and the pair
\* out of the list, destroyed by it unless it saw LOCAL_GLARE_DETECT, in
\* which case LOCAL_CANCEL_QUEUE is set and nothing is destroyed yet; the
\* forwarding hangup queues its frame once and destroys nothing, unless it
\* finds LOCAL_CANCEL_QUEUE after its back-off, when it queues nothing and
\* destroys the pair.
C25_DirectOrForwardedUnlessRaced ==
  [][/\ HangupChoosesPath
     /\ \A t \in Threads :
          (HangupReturns(t) /\ ~Freed) =>
            /\ WentDirect(t) =>
                 /\ owner' = Null /\ chan' = Null /\ ~inList'
                 /\ IF thr[t].glare
                    THEN destroyed' = 0 /\ LOCAL_CANCEL_QUEUE \in flags'
                    ELSE destroyed' = 1
            /\ thr[t].fwd =>
                 IF thr[t].pc = "destroy"
                 THEN /\ enqlog' = enqlog
                      /\ LOCAL_CANCEL_QUEUE \in flags
                      /\ destroyed' = 1
                 ELSE /\ destroyed' = 0
                      /\ Count(enqlog'[Remaining(t)], thr[t].f) = 1]_vars

\* a hangup of A with no PBX on B has returned after hanging B up: the pair
\* is out of the list and destroyed once
C25_Witness ==
  \E t \in Threads :
    /\ thr[t].kind = "hangup" /\ thr[t].outer = "A" /\ thr[t].ast = "B"
    /\ thr[t].pc = "ret" /\ thr[t].res = 0
    /\ ~thr[t].glare
    /\ owner = Null /\ chan = Null /\ ~inList /\ destroyed = 1
    /\ ~pbx

\* C26: each of the two module references taken by local_new is released
\* once and never more, and when the pair has been destroyed none is still
\* held: as many releases as acquisitions
C26_ModuleReferencesBalanced ==
  /\ umod.owner \in {0, 1}
  /\ umod.chan \in {0, 1}
  /\ destroyed > 0 => umod = [owner |-> 0, chan |-> 0]

\* local_call leaves the locked section of some thread in this step
CallReturns(t) == thr[t].pc = "call_locked" /\ thr'[t].pc = "ret"

\* what the step of local_call that returns does to the pair
CallOutcome ==
  \A t \in Threads :
    CallReturns(t) =>
      /\ LOCAL_LAUNCHED_PBX \notin flags
      /\ thr'[t].arg = "noexten" <=> ~ast_exists_extension(context, exten)
      /\ LOCAL_LAUNCHED_PBX \in flags' <=> thr'[t].arg = "pbx_ok"
      /\ pbx' <=> thr'[t].arg = "pbx_ok"
      /\ thr'[t].arg = "noexten" => thr'[t].res = -1
      /\ thr'[t].res = 0 <=> thr'[t].arg = "pbx_ok"

\* local_call has returned holding neither the pair mutex nor B's lock
CallReleased ==
  \A t \in Threads :
    (thr[t].kind = "call" /\ thr[t].pc = "ret") => (plock # t /\ clock["B"] # t)

\* while the pair exists LOCAL_LAUNCHED_PBX is only set with B attached
LaunchedHasChan == ~Freed => (LOCAL_LAUNCHED_PBX \in flags => chan # Null)

\* C27: local_call sets LOCAL_LAUNCHED_PBX exactly when the extension exists
\* and ast_pbx_start succeeded; with no extension it returns -1, starts no
\* PBX and leaves the flag clear; it returns with the pair mutex and B's lock
\* released; and LOCAL_LAUNCHED_PBX is never set with p->chan null
C27_CallLaunchesPbx ==
  /\ [](CallReleased /\ LaunchedHasChan)
  /\ [][CallOutcome]_vars

\* local_call has started the PBX on B after at least one operation of the
\* other thread, and holds none of the locks it took
C27_Witness ==
  /\ thr["t1"].kind = "call" /\ thr["t1"].pc = "ret" /\ thr["t1"].arg = "pbx_ok"
  /\ LOCAL_LAUNCHED_PBX \in flags /\ chan = "B"
  /\ plock # "t1" /\ clock["B"] # "t1"
  /\ nops > 1

\* the thread is in the trylock loop of local_queue_frame or in its back-off
InDance(t) == thr[t].fwd /\ thr[t].pc \in {"try", "cda", "cdp", "sleep"}

\* C28: a local_queue_frame call that found its partner locked returns in
\* the end, in particular when one thread holding A forwards to B while
\* another holding B forwards to A
C28_ForwardsReturn == \A t \in Threads : InDance(t) ~> (thr[t].pc = "ret")

====
